---- MODULE Spec2Model ----
(***************************************************************************)
(* A model of the Solidity front-end: the diagnostics collector, the      *)
(* contract-base resolver, the using/operator-binding resolver, the file  *)
(* resolver, the import-driven analyzer and the parser's error channel.   *)
(* Each subsystem has its own variables and its own specification; a      *)
(* subsystem that a specification does not exercise stays in its idle     *)
(* state.                                                                  *)
(***************************************************************************)
EXTENDS Integers, Sequences, FiniteSets, TLC

(***************************************************************************)
(* Bounds of the model.                                                    *)
(***************************************************************************)
\* longest Context.diagnostics sequence explored
MaxDiags == 3
\* longest second collection (the argument of extend)
MaxOther == 1
\* longest vector handed to append
MaxVec == 1

(***************************************************************************)
(* The state: the fields of Diagnostics, of Context and of the resolvers.  *)
(***************************************************************************)
VARIABLES
    contents,        \* Diagnostics.contents of Context.diagnostics
    has_error,       \* Diagnostics.has_error of Context.diagnostics
    other_contents,  \* contents of a second, local Diagnostics collection
    other_has_error, \* has_error of the second collection
    dlast            \* "normalize" when the latest operation on Context.diagnostics
                     \* was normalize, "grow" when it added diagnostics

diagVars == <<contents, has_error, other_contents, other_has_error, dlast>>

VARIABLES
    ctys,        \* Context.contracts[*].ty
    bases,       \* Context.contracts[*].bases, as sequences of contract_no
    blast,       \* what the latest visit_base call did
    base_diags   \* the diagnostics the latest visit_base call added to the context

baseVars == <<ctys, bases, blast, base_diags>>

VARIABLES
    using,           \* Context.using
    contract_using,  \* Context.contracts[0].using
    using_ndiags     \* how many diagnostics the latest directive added to the context

usingVars == <<using, contract_using, using_ndiags>>

VARIABLES
    import_paths,  \* FileResolver.import_paths: entries [map, path]
    cached_paths,  \* FileResolver.cached_paths: path -> index into files
    files,         \* FileResolver.files
    rlast          \* the latest FileResolver operation and what it returned

resolverVars == <<import_paths, cached_paths, files, rlast>>

VARIABLES
    perrors,   \* parse: the errors the parser recovered from, as collected
    pno,       \* parse: the file number handed in
    presult    \* parse: what it returned, with the terminal error of an Err

parseVars == <<perrors, pno, presult>>

VARIABLES
    variable_symbols,  \* Context.variable_symbols of each of two runs
    function_symbols,  \* Context.function_symbols of each of two runs
    import_diags,      \* Context.diagnostics of each of two runs
    import_done        \* whether the run has processed its plain import

importVars == <<variable_symbols, function_symbols, import_diags, import_done>>

VARIABLES
    src_imports,  \* the import directives of each file on disk, in source order
    src_parses,   \* whether each file on disk parses
    ctx_files,    \* Context.files (the path of each File)
    ctx_diags,    \* Context.diagnostics
    stack,        \* the activations of analyzer::analyze, the innermost last
    calls,        \* how often analyzer::analyze was entered for each path
    log,          \* the passes executed, in order, with the file number
    finished      \* semantic::analyze has returned

analyzeVars ==
    <<src_imports, src_parses, ctx_files, ctx_diags, stack, calls, log, finished>>

VARIABLES
    source_unit,  \* collector: the parse tree handed to the collector
    collector,    \* the AnnotationCollector, with the diagnostics it pushed
    tree,         \* <<>>, or <<the SourceUnit collect returned>>
    cstage        \* "new", "visited" or "collected"

collectVars == <<source_unit, collector, tree, cstage>>

VARIABLES
    enums,         \* Context.enums: the number of values of each EnumDecl
    structs,       \* Context.structs: the name of each StructDecl
    events,        \* Context.events: the name of each EventDecl
    error_decls,   \* Context.errors: the name of each ErrorDecl
    type_symbols,  \* Context.variable_symbols, as the type resolver fills it
    tlast          \* the latest TypeResolver call and the errors it pushed

typeVars == <<enums, structs, events, error_decls, type_symbols, tlast>>

VARIABLES
    ctx_functions, \* Context.functions: [name, params, signature] of each
    func_symbols,  \* Context.function_symbols, as the function resolver fills it
    fresolver,     \* the FunctionResolver's fields
    flast          \* the diagnostics the latest visit_function call pushed

funcVars == <<ctx_functions, func_symbols, fresolver, flast>>

VARIABLES
    mfunctions,  \* mutability: Context.functions, a function and a modifier
    mdiags,      \* mutability: Context.diagnostics
    mchecked     \* mutability: check has run on file 0

mutVars == <<mfunctions, mdiags, mchecked>>

VARIABLES
    header_tokens,  \* header: the tokens the lexer yields for the text parsed
    header_result   \* header: the result of ContractDefinitionParser::parse

headerVars == <<header_tokens, header_result>>

VARIABLES
    pragma_directive,  \* pragma: the directive handed to visit_pragma
    pragmas,           \* pragma: Context.pragmas
    pragma_diags,      \* pragma: Context.diagnostics
    pragma_done        \* pragma: visit_pragma has returned

pragmaVars == <<pragma_directive, pragmas, pragma_diags, pragma_done>>

VARIABLES
    rename_imports     \* rename: the (name, alias) list of a rename import

renameVars == <<rename_imports>>

vars ==
    <<diagVars, baseVars, usingVars, resolverVars, parseVars, importVars,
      analyzeVars, collectVars, typeVars, funcVars, mutVars, headerVars,
      pragmaVars, renameVars>>

\* What the operations of one subsystem leave alone.
nonDiag ==
    <<baseVars, usingVars, resolverVars, parseVars, importVars, analyzeVars,
      collectVars, typeVars, funcVars, mutVars, headerVars, pragmaVars,
      renameVars>>
nonBase ==
    <<diagVars, usingVars, resolverVars, parseVars, importVars, analyzeVars,
      collectVars, typeVars, funcVars, mutVars, headerVars, pragmaVars,
      renameVars>>
nonUsing ==
    <<diagVars, baseVars, resolverVars, parseVars, importVars, analyzeVars,
      collectVars, typeVars, funcVars, mutVars, headerVars, pragmaVars,
      renameVars>>
nonResolver ==
    <<diagVars, baseVars, usingVars, parseVars, importVars, analyzeVars,
      collectVars, typeVars, funcVars, mutVars, headerVars, pragmaVars,
      renameVars>>
nonParse ==
    <<diagVars, baseVars, usingVars, resolverVars, importVars, analyzeVars,
      collectVars, typeVars, funcVars, mutVars, headerVars, pragmaVars,
      renameVars>>
nonImport ==
    <<diagVars, baseVars, usingVars, resolverVars, parseVars, analyzeVars,
      collectVars, typeVars, funcVars, mutVars, headerVars, pragmaVars,
      renameVars>>
nonAnalyze ==
    <<diagVars, baseVars, usingVars, resolverVars, parseVars, importVars,
      collectVars, typeVars, funcVars, mutVars, headerVars, pragmaVars,
      renameVars>>
nonCollect ==
    <<diagVars, baseVars, usingVars, resolverVars, parseVars, importVars,
      analyzeVars, typeVars, funcVars, mutVars, headerVars, pragmaVars,
      renameVars>>
nonType ==
    <<diagVars, baseVars, usingVars, resolverVars, parseVars, importVars,
      analyzeVars, collectVars, funcVars, mutVars, headerVars, pragmaVars,
      renameVars>>
nonFunc ==
    <<diagVars, baseVars, usingVars, resolverVars, parseVars, importVars,
      analyzeVars, collectVars, typeVars, mutVars, headerVars, pragmaVars,
      renameVars>>
nonMut ==
    <<diagVars, baseVars, usingVars, resolverVars, parseVars, importVars,
      analyzeVars, collectVars, typeVars, funcVars, headerVars, pragmaVars,
      renameVars>>
nonHeader ==
    <<diagVars, baseVars, usingVars, resolverVars, parseVars, importVars,
      analyzeVars, collectVars, typeVars, funcVars, mutVars, pragmaVars,
      renameVars>>
nonPragma ==
    <<diagVars, baseVars, usingVars, resolverVars, parseVars, importVars,
      analyzeVars, collectVars, typeVars, funcVars, mutVars, headerVars,
      renameVars>>
nonRename ==
    <<diagVars, baseVars, usingVars, resolverVars, parseVars, importVars,
      analyzeVars, collectVars, typeVars, funcVars, mutVars, headerVars,
      pragmaVars>>

(***************************************************************************)
(* Generic helpers.                                                        *)
(***************************************************************************)
Range(s) == {s[i] : i \in 1..Len(s)}

SeqsUpTo(S, n) == UNION {[1..k -> S] : k \in 0..n}

\* Lexicographic order on sequences of integers: the order Rust gives to
\* String (bytewise), Vec<T> and tuples of integers.
RECURSIVE SeqLess(_, _)
SeqLess(a, b) ==
    IF b = <<>> THEN FALSE
    ELSE IF a = <<>> THEN TRUE
    ELSE IF Head(a) < Head(b) THEN TRUE
    ELSE IF Head(a) > Head(b) THEN FALSE
    ELSE SeqLess(Tail(a), Tail(b))

(***************************************************************************)
(* Diagnostics (src/src/diagnostics.rs).                                   *)
(***************************************************************************)

\* #[derive(PartialOrd, Ord)] on Level: declaration order.
LevelRank(l) ==
    CASE l = "Debug" -> 0
      [] l = "Info" -> 1
      [] l = "Warning" -> 2
      [] l = "Error" -> 3

\* #[derive(PartialOrd, Ord)] on ErrorType: declaration order.
ErrorTypeRank(t) ==
    CASE t = "None" -> 0
      [] t = "ParserError" -> 1
      [] t = "SyntaxError" -> 2
      [] t = "DeclarationError" -> 3
      [] t = "CastError" -> 4
      [] t = "TypeError" -> 5
      [] t = "Warning" -> 6

\* A location is <<0>> for Loc::Implicit and <<1, file_no, start, end>> for
\* Loc::File(file_no, start, end); the order is the derived one.
LocLess(a, b) == SeqLess(a, b)

\* A note is <<loc, message>>; #[derive(Ord)] on Note compares loc, then message.
NoteLess(a, b) ==
    \/ LocLess(a[1], b[1])
    \/ a[1] = b[1] /\ SeqLess(a[2], b[2])

\* Vec<Note> is ordered lexicographically.
RECURSIVE NotesLess(_, _)
NotesLess(a, b) ==
    IF b = <<>> THEN FALSE
    ELSE IF a = <<>> THEN TRUE
    ELSE IF NoteLess(Head(a), Head(b)) THEN TRUE
    ELSE IF NoteLess(Head(b), Head(a)) THEN FALSE
    ELSE NotesLess(Tail(a), Tail(b))

\* #[derive(PartialOrd, Ord)] on Diagnostic: loc, level, ty, message, notes.
DiagLess(a, b) ==
    \/ LocLess(a.loc, b.loc)
    \/ /\ a.loc = b.loc
       /\ \/ LevelRank(a.level) < LevelRank(b.level)
          \/ /\ a.level = b.level
             /\ \/ ErrorTypeRank(a.ty) < ErrorTypeRank(b.ty)
                \/ /\ a.ty = b.ty
                   /\ \/ SeqLess(a.message, b.message)
                      \/ /\ a.message = b.message
                         /\ NotesLess(a.notes, b.notes)

\* DiagnosticBuilder::build
Diagnostic(loc, level, ty, message, notes) ==
    [loc |-> loc, level |-> level, ty |-> ty, message |-> message, notes |-> notes]

\* Diagnostic::error, Diagnostic::warning, Diagnostic::debug
DiagError(loc, msg) == Diagnostic(loc, "Error", "SyntaxError", msg, <<>>)
DiagWarning(loc, msg) == Diagnostic(loc, "Warning", "Warning", msg, <<>>)
DiagDebug(loc, msg) == Diagnostic(loc, "Debug", "None", msg, <<>>)

\* The diagnostics the model pushes: every pair differs in exactly the field
\* that decides its order, so that each field of the comparison matters.
LocA == <<1, 0, 2, 5>>
LocB == <<1, 0, 7, 9>>
DiagUniverse ==
    { DiagError(LocA, <<1>>),
      DiagError(LocB, <<1>>),
      DiagError(LocA, <<1, 2>>),
      DiagWarning(LocA, <<1>>),
      Diagnostic(LocA, "Error", "ParserError", <<1>>, <<>>),
      Diagnostic(LocA, "Error", "SyntaxError", <<1>>, << <<LocB, <<3>> >> >>) }

\* contents.sort(): the stable sort of the standard library, as an insertion
\* sort that keeps equal elements in their original order.
RECURSIVE InsertSorted(_, _)
InsertSorted(d, s) ==
    IF s = <<>> THEN <<d>>
    ELSE IF DiagLess(d, Head(s)) THEN <<d>> \o s
    ELSE <<Head(s)>> \o InsertSorted(d, Tail(s))

RECURSIVE SortDiags(_)
SortDiags(s) ==
    IF s = <<>> THEN <<>>
    ELSE InsertSorted(s[Len(s)], SortDiags(SubSeq(s, 1, Len(s) - 1)))

\* contents.dedup(): removes consecutive repeated elements.
RECURSIVE DedupDiags(_)
DedupDiags(s) ==
    IF Len(s) <= 1 THEN s
    ELSE IF s[1] = s[2] THEN DedupDiags(Tail(s))
    ELSE <<s[1]>> \o DedupDiags(Tail(s))

\* The body of Diagnostics::normalize without the deduplication.
normalized_nodedup(s) == SortDiags(s)

\* The body of Diagnostics::normalize: sort, then dedup.
normalized(s) == DedupDiags(SortDiags(s))

\* any(|m| m.level == Level::Error)
AnyError(s) == \E i \in 1..Len(s) : s[i].level = "Error"

\* Diagnostics::any_errors
any_errors == has_error

\* Diagnostics::default()
DiagInit ==
    /\ contents = <<>>
    /\ has_error = FALSE
    /\ other_contents = <<>>
    /\ other_has_error = FALSE
    /\ dlast = "new"

\* push that forgets the cached flag
push_noflag(d) ==
    /\ Len(contents) < MaxDiags
    /\ contents' = Append(contents, d)
    /\ dlast' = "grow"
    /\ UNCHANGED <<has_error, other_contents, other_has_error>>
    /\ UNCHANGED nonDiag

\* Diagnostics::push on Context.diagnostics
push(d) ==
    /\ Len(contents) < MaxDiags
    /\ has_error' = (IF d.level = "Error" THEN TRUE ELSE has_error)
    /\ contents' = Append(contents, d)
    /\ dlast' = "grow"
    /\ UNCHANGED <<other_contents, other_has_error>>
    /\ UNCHANGED nonDiag

\* Diagnostics::push on the local collection
other_push(d) ==
    /\ Len(other_contents) < MaxOther
    /\ other_has_error' = (IF d.level = "Error" THEN TRUE ELSE other_has_error)
    /\ other_contents' = Append(other_contents, d)
    /\ UNCHANGED <<contents, has_error, dlast>>
    /\ UNCHANGED nonDiag

\* Diagnostics::extend: the argument is moved in; the local collection
\* starts again from Diagnostics::default().
extend ==
    /\ Len(contents) + Len(other_contents) <= MaxDiags
    /\ has_error' = (has_error \/ other_has_error)
    /\ contents' = contents \o other_contents
    /\ other_contents' = <<>>
    /\ other_has_error' = FALSE
    /\ dlast' = "grow"
    /\ UNCHANGED nonDiag

\* Diagnostics::append: Vec::append moves every element of the vector.
append(v) ==
    /\ Len(contents) + Len(v) <= MaxDiags
    /\ has_error' = (IF ~has_error THEN AnyError(v) ELSE has_error)
    /\ contents' = contents \o v
    /\ dlast' = "grow"
    /\ UNCHANGED <<other_contents, other_has_error>>
    /\ UNCHANGED nonDiag

\* Itertools::find_or_first on the contents: the index of the first
\* diagnostic of the level, or of the first diagnostic when there is none.
find_or_first(diags, level) ==
    LET found == {n \in 1..Len(diags) : diags[n].level = level} IN
    IF found = {} THEN 1 ELSE CHOOSE n \in found : \A k \in found : n <= k

\* Diagnostics::first_error, for a collection that is not empty.
first_error(diags) == diags[find_or_first(diags, "Error")].message

\* Diagnostics::normalize
normalize ==
    /\ contents' = normalized(contents)
    /\ dlast' = "normalize"
    /\ UNCHANGED <<has_error, other_contents, other_has_error>>
    /\ UNCHANGED nonDiag

(***************************************************************************)
(* Contract-base resolver (src/src/semantic/contract.rs).                  *)
(***************************************************************************)
\* number of contracts declared in the context
NumContracts == 3

Contracts == 0..(NumContracts - 1)

\* pt::ContractTy
ContractTys == {"contract", "abstract contract", "interface", "library"}


\* Contract::is_library, Contract::is_interface
is_library(c) == ctys[c] = "library"
is_interface(c) == ctys[c] = "interface"

\* is_base(base, derived, ctx) over the base lists bs.  The recursion is cut
\* at depth NumContracts, which no path of an acyclic relation reaches; on a
\* cyclic relation the code would not return.
RECURSIVE is_base_in(_, _, _, _)
is_base_in(base, derived, bs, fuel) ==
    IF base = derived \/ \E i \in 1..Len(bs[derived]) : bs[derived][i].contract_no = base
    THEN TRUE
    ELSE IF fuel = 0 THEN FALSE
    ELSE \E i \in 1..Len(bs[derived]) :
            is_base_in(base, bs[derived][i].contract_no, bs, fuel - 1)

is_base(base, derived) == is_base_in(base, derived, bases, NumContracts)

\* Base { contract_no, constructor }; constructor is <<>> for None.
Base(contract_no, constructor) ==
    [contract_no |-> contract_no, constructor |-> constructor]

\* The order of a forward iteration over n direct bases.
visit_order_forward(n) == [i \in 1..n |-> i]

\* `.iter().rev()`: the direct bases are visited from the last declared to
\* the first.
visit_order(n) == [i \in 1..n |-> n + 1 - i]

\* The nested fn base of Context::contract_bases: the bases of contract_no
\* are visited recursively in visit_order, then contract_no is pushed
\* unless order already contains it. base_bases is the for loop from the
\* k-th visited base on.
RECURSIVE base_post_order(_, _), base_bases(_, _, _)
base_bases(contract_no, k, order) ==
    LET n == Len(bases[contract_no]) IN
    IF k > n THEN order
    ELSE base_bases(contract_no, k + 1,
             base_post_order(bases[contract_no][visit_order(n)[k]].contract_no,
                             order))

base_post_order(contract_no, order) ==
    LET visited == base_bases(contract_no, 1, order) IN
    IF contract_no \in Range(visited) THEN visited
    ELSE Append(visited, contract_no)

\* Context::contract_bases.
contract_bases(contract_no) == base_post_order(contract_no, <<>>)

\* The branch visit_base takes, without the duplicate test.
base_outcome_nodup(contract_no, resolved) ==
    IF is_library(contract_no) THEN "library has base"
    ELSE IF resolved = <<>> THEN "unresolved"
    ELSE IF resolved[1] = contract_no THEN "itself"
    ELSE IF is_base(contract_no, resolved[1]) THEN "cyclic"
    ELSE IF is_interface(contract_no) /\ ~is_interface(resolved[1])
         THEN "interface base"
    ELSE IF is_library(resolved[1]) THEN "library as base"
    ELSE "accepted"

\* The branch visit_base takes, with the library test on the base moved in
\* front of the interface test.
base_outcome_libraryfirst(contract_no, resolved) ==
    IF is_library(contract_no) THEN "library has base"
    ELSE IF resolved = <<>> THEN "unresolved"
    ELSE IF resolved[1] = contract_no THEN "itself"
    ELSE IF \E i \in 1..Len(bases[contract_no]) : bases[contract_no][i].contract_no = resolved[1]
         THEN "duplicate"
    ELSE IF is_base(contract_no, resolved[1]) THEN "cyclic"
    ELSE IF is_library(resolved[1]) THEN "library as base"
    ELSE IF is_interface(contract_no) /\ ~is_interface(resolved[1])
         THEN "interface base"
    ELSE "accepted"

\* The branch visit_base takes, without the cycle test.
base_outcome_nocycle(contract_no, resolved) ==
    IF is_library(contract_no) THEN "library has base"
    ELSE IF resolved = <<>> THEN "unresolved"
    ELSE IF resolved[1] = contract_no THEN "itself"
    ELSE IF \E i \in 1..Len(bases[contract_no]) : bases[contract_no][i].contract_no = resolved[1]
         THEN "duplicate"
    ELSE IF is_interface(contract_no) /\ ~is_interface(resolved[1])
         THEN "interface base"
    ELSE IF is_library(resolved[1]) THEN "library as base"
    ELSE "accepted"

\* The branch BaseContractResolver::visit_base takes for the current contract
\* and the result of resolve_contract_with_namespace: <<>> for Err(()) and
\* <<no>> for Ok(no).
base_outcome(contract_no, resolved) ==
    IF is_library(contract_no) THEN "library has base"
    ELSE IF resolved = <<>> THEN "unresolved"
    ELSE IF resolved[1] = contract_no THEN "itself"
    ELSE IF \E i \in 1..Len(bases[contract_no]) : bases[contract_no][i].contract_no = resolved[1]
         THEN "duplicate"
    ELSE IF is_base(contract_no, resolved[1]) THEN "cyclic"
    ELSE IF is_interface(contract_no) /\ ~is_interface(resolved[1])
         THEN "interface base"
    ELSE IF is_library(resolved[1]) THEN "library as base"
    ELSE "accepted"

\* The contracts are declared before their bases are resolved.
BaseInit ==
    /\ ctys \in [Contracts -> ContractTys]
    /\ bases = [c \in Contracts |-> <<>>]
    /\ blast = "none"
    /\ base_diags = <<>>

BaseIdle ==
    /\ ctys = [c \in Contracts |-> "contract"]
    /\ bases = [c \in Contracts |-> <<>>]
    /\ blast = "none"
    /\ base_diags = <<>>

\* BaseContractResolver::visit_base.  The name resolution either fails or
\* yields a contract number; the diagnostics it produced on failure stay in
\* the local collection, which is dropped on that path.
visit_base(contract_no, resolved) ==
    LET o == base_outcome(contract_no, resolved) IN
    /\ blast' = o
    /\ bases' = IF o = "accepted"
                THEN [bases EXCEPT ![contract_no] = Append(@, Base(resolved[1], <<>>))]
                ELSE bases
    /\ base_diags' = IF o \in {"accepted", "unresolved"}
                     THEN <<>>
                     ELSE <<[level |-> "Error", ty |-> "SyntaxError", message |-> o]>>
    /\ UNCHANGED ctys
    /\ UNCHANGED nonBase

BaseNext ==
    \E c \in Contracts, r \in {<<>>} \cup {<<no>> : no \in Contracts} :
        visit_base(c, r)

(***************************************************************************)
(* Using / operator-binding resolver (src/src/semantic/using.rs).          *)
(***************************************************************************)
\* most using directives recorded in the context and in the contract
MaxUsing == 2
\* longest function list of one using directive
MaxFuncs == 2


\* Type::UserType(0) and Type::Uint(256)
TypeT == <<"UserType", 0>>
TypeUint == <<"Uint", 256>>

\* Context.functions: two pure binary functions and one view unary function
\* over the user type, all free functions.
functions ==
    [f \in 0..2 |->
        [contract_no |-> <<>>,
         params |-> IF f = 2 THEN <<TypeT>> ELSE <<TypeT, TypeT>>,
         returns |-> <<TypeT>>,
         mutability |-> IF f = 2 THEN "view" ELSE "pure"]]

\* UserDefinedOperator::args and UserDefinedOperator::is_comparison
OperArgs(oper) == IF oper = "Negate" THEN 1 ELSE 2
OperIsComparison(oper) == oper \in {"Equal", "NotEqual", "Less", "More"}

\* Expression::cast(.., implicit = true): a user type casts implicitly only
\* to itself.
ImplicitCastOk(from, to) == from = to

\* user_defined_operator_binding(ty, oper, ctx): the first binding of oper
\* among the entries of Context.using for ty, <<>> when there is none.
RECURSIVE FindOper(_, _)
FindOper(funcs, oper) ==
    IF funcs = <<>> THEN <<>>
    ELSE IF Head(funcs).oper = <<oper>> THEN <<Head(funcs)>>
    ELSE FindOper(Tail(funcs), oper)

RECURSIVE user_defined_operator_binding_in(_, _, _)
user_defined_operator_binding_in(us, ty, oper) ==
    IF us = <<>> THEN <<>>
    ELSE IF Head(us).ty = <<ty>> /\ Head(us).list[1] = "Functions"
            /\ FindOper(Head(us).list[2], oper) # <<>>
         THEN FindOper(Head(us).list[2], oper)
    ELSE user_defined_operator_binding_in(Tail(us), ty, oper)

user_defined_operator_binding(ty, oper) ==
    user_defined_operator_binding_in(using, ty, oper)

\* One iteration of the loop of resove_functions for the using_function uf =
\* [path, oper]: path is the result of resolve_function_with_namespace (<<>>
\* for Err, else the overload list), oper is <<>> or <<operator>>.  The
\* result names what the iteration does (push, continue or break) and the
\* diagnostic it records.
resolve_one(uf, scope, global, ty) ==
    IF uf.path = <<>> THEN [do |-> "continue", diag |-> <<"not found">>]
    ELSE IF Len(uf.path) > 1
         THEN [do |-> "continue", diag |-> <<"overloaded function">>]
    ELSE LET func_no == uf.path[1]
             func == functions[func_no] IN
    IF func.contract_no # <<>> /\ ~is_library(func.contract_no[1])
         THEN [do |-> "continue", diag |-> <<"not a library function">>]
    ELSE IF func.params = <<>>
         THEN [do |-> "continue", diag |-> <<"no arguments">>]
    ELSE IF uf.oper # <<>> THEN
        IF scope # <<>> \/ global = <<>> \/ ty = <<>>
        THEN [do |-> "break", diag |-> <<"operator only in global using">>]
        ELSE IF ty[1][1] # "UserType"
        THEN [do |-> "break", diag |-> <<"operator only with user types">>]
        ELSE IF uf.oper[1] \in {"Subtract", "Negate"} /\ Len(func.params) \notin {1, 2}
        THEN [do |-> "continue", diag |-> <<"'-' needs 1 or 2 parameters">>]
        ELSE LET oper == IF uf.oper[1] \in {"Subtract", "Negate"}
                         THEN (IF Len(func.params) = 1 THEN "Negate" ELSE "Subtract")
                         ELSE uf.oper[1] IN
        IF Len(func.params) # OperArgs(oper)
              \/ \E i \in 1..Len(func.params) : func.params[i] # ty[1]
        THEN [do |-> "continue", diag |-> <<"wrong arguments">>]
        ELSE IF OperIsComparison(oper) /\ func.returns # <<<<"Bool">>>>
        THEN [do |-> "continue", diag |-> <<"must return bool">>]
        ELSE IF ~OperIsComparison(oper) /\ func.returns # <<ty[1]>>
        THEN [do |-> "continue", diag |-> <<"must return the type">>]
        ELSE IF func.mutability # "pure"
        THEN [do |-> "continue", diag |-> <<"must be pure">>]
        ELSE IF user_defined_operator_binding(ty[1], oper) # <<>>
        THEN IF user_defined_operator_binding(ty[1], oper)[1].function_no # func_no
             THEN [do |-> "continue", diag |-> <<"redefined">>]
             ELSE [do |-> "continue", diag |-> <<"redefined to same function">>]
        ELSE [do |-> "push", diag |-> <<>>,
              item |-> [function_no |-> func_no, oper |-> <<oper>>]]
    ELSE IF ty # <<>> /\ ~ImplicitCastOk(ty[1], func.params[1])
         THEN [do |-> "continue", diag |-> <<"first argument has another type">>]
    ELSE [do |-> "push", diag |-> <<>>,
          item |-> [function_no |-> func_no, oper |-> <<>>]]

\* UsingResolver::resove_functions: the loop over the function list, res
\* and diags accumulated so far.
RECURSIVE resove_functions(_, _, _, _, _, _)
resove_functions(funcs, scope, global, ty, res, diags) ==
    IF funcs = <<>> THEN [res |-> res, diags |-> diags]
    ELSE LET r == resolve_one(Head(funcs), scope, global, ty) IN
         IF r.do = "break" THEN [res |-> res, diags |-> diags \o r.diag]
         ELSE IF r.do = "continue"
         THEN resove_functions(Tail(funcs), scope, global, ty, res, diags \o r.diag)
         ELSE resove_functions(Tail(funcs), scope, global, ty,
                               Append(res, r.item), diags)

\* UsingResolver::resolve_global: the file_no of the directive and the
\* diagnostic recorded.
resolve_global(global, scope, ty) ==
    IF global[1] = "global"
    THEN IF scope # <<>>
         THEN [file_no |-> <<0>>, diag |-> <<"global within contract">>]
         ELSE IF ty # <<>> /\ ty[1][1] \in {"Struct", "UserType", "Enum"}
         THEN [file_no |-> <<>>, diag |-> <<>>]
         ELSE [file_no |-> <<0>>, diag |-> <<"global only on user types">>]
    ELSE [file_no |-> <<0>>, diag |-> <<"did you mean 'global'?">>]

\* UsingResolver::visit_using, as the Using it leaves in self.using (<<>>
\* when it returns early) and the diagnostics it records.  tyres is <<"*">> for
\* a directive without a type, <<"Err">> when resolve_type fails and
\* <<"Ok", ty>> when it yields ty; list is <<"Library", r>> or <<"Functions", funcs>>.
visit_using_result(scope, tyres, list, global) ==
    IF scope # <<>> /\ is_interface(scope[1])
    THEN [using |-> <<>>, diags |-> <<"not permitted in interface">>]
    ELSE IF tyres[1] = "Err"
    THEN [using |-> <<>>, diags |-> <<"type not found">>]
    ELSE IF tyres[1] = "Ok" /\ tyres[2][1] = "Contract" /\ is_library(tyres[2][2])
    THEN [using |-> <<>>, diags |-> <<"library type not permitted">>]
    ELSE IF tyres[1] = "*" /\ scope = <<>>
    THEN [using |-> <<>>, diags |-> <<"'*' cannot be used on file scope">>]
    ELSE LET ty == IF tyres[1] = "*" THEN <<>> ELSE <<tyres[2]>> IN
    IF list[1] = "Library" /\ list[2] = <<>>
    THEN [using |-> <<>>, diags |-> <<"not found">>]
    ELSE IF list[1] = "Library" /\ ~is_library(list[2][1])
    THEN [using |-> <<>>, diags |-> <<"library expected">>]
    ELSE LET fr == IF list[1] = "Library"
                   THEN [res |-> <<>>, diags |-> <<>>]
                   ELSE resove_functions(list[2], scope, global, ty, <<>>, <<>>)
             ul == IF list[1] = "Library" THEN <<"Library", list[2][1]>>
                   ELSE <<"Functions", fr.res>>
             g == IF global = <<>> THEN [file_no |-> <<0>>, diag |-> <<>>]
                  ELSE resolve_global(global, scope, ty) IN
         [using |-> <<[list |-> ul, ty |-> ty, file_no |-> g.file_no]>>,
          diags |-> g.diag \o fr.diags]

\* The contract of contract-scope directives is contract 0; contract 1 is a
\* library.
UsingCtys(k) == [c \in Contracts |-> IF c = 0 THEN k ELSE IF c = 1 THEN "library" ELSE "contract"]

UsingInit ==
    /\ using = <<>>
    /\ contract_using = <<>>
    /\ using_ndiags = 0

UsingIdle == UsingInit

\* The using_function entries the parser can hand over.
UsingFunctionInputs ==
    [path : {<<>>, <<0>>, <<1>>, <<2>>, <<0, 1>>}, oper : {<<>>, <<"Subtract">>}]

UsingListInputs ==
    {<<"Library", r>> : r \in {<<>>, <<1>>, <<2>>}}
        \cup {<<"Functions", fs>> : fs \in SeqsUpTo(UsingFunctionInputs, MaxFuncs)}

\* One using directive: UsingResolver::visit_using followed by finish() and
\* the push of its caller (visit_sema_source_unit_part at file scope,
\* ContractResolver::visit_using in a contract).
using_directive(scope, tyres, list, global) ==
    LET r == visit_using_result(scope, tyres, list, global) IN
    /\ Len(using) + Len(contract_using) < MaxUsing
    /\ using' = IF scope = <<>> THEN using \o r.using ELSE using
    /\ contract_using' = IF scope # <<>> THEN contract_using \o r.using
                         ELSE contract_using
    /\ using_ndiags' = Len(r.diags)
    /\ UNCHANGED nonUsing

\* The directives the parser can hand over.  A directive whose type does not
\* resolve, or resolves to a library, returns before its list and its global
\* marker are read, so one list and one marker stand for all of them.
UsingDirectiveInputs ==
    ({<<"Err">>, <<"Ok", <<"Contract", 1>> >>}
        \X {<<"Functions", <<>> >>} \X {<<>>})
    \cup ({<<"*">>, <<"Ok", TypeT>>, <<"Ok", TypeUint>>}
        \X UsingListInputs \X {<<>>, <<"global">>, <<"glob">>})

UsingNext ==
    \E scope \in {<<>>, <<0>>}, d \in UsingDirectiveInputs :
        using_directive(scope, d[1], d[2], d[3])


DiagNext ==
    \/ \E d \in DiagUniverse : push(d)
    \/ \E d \in DiagUniverse : other_push(d)
    \/ extend
    \/ \E v \in SeqsUpTo(DiagUniverse, MaxVec) : append(v)
    \/ normalize

(***************************************************************************)
(* File resolver (src/src/resolver.rs).  A path is the sequence of its     *)
(* components; "/" is the root component.                                  *)
(***************************************************************************)
\* most entries of FileResolver.files explored
MaxFiles == 2
\* most entries of FileResolver.import_paths explored
MaxImportPaths == 2

\* The file system: the working directory and the regular files on disk.
\* There are no symbolic links.  A directory exists when a file lies below it.
Cwd == <<"/", "w">>
DiskFiles == {<<"/", "w", "a.sol">>, <<"/", "w", "lib", "a.sol">>}

IsPrefix(p, q) == Len(p) <= Len(q) /\ SubSeq(q, 1, Len(p)) = p

\* Path::exists: a file, or a directory above one.
Exists(p) == \E f \in DiskFiles : IsPrefix(p, f)

\* Path::is_absolute
IsAbsolute(p) == p # <<>> /\ p[1] = "/"

\* Path::join: an absolute argument replaces the base.
Join(base, p) == IF IsAbsolute(p) THEN p ELSE base \o p

\* Path::parent(), with unwrap_or(".") as in resolve.
ParentDir(p) == IF Len(p) <= 1 THEN <<".">> ELSE SubSeq(p, 1, Len(p) - 1)

\* NormalizePath::normalize: drops "." and lets ".." pop the component
\* before it, without looking at the file system.
RECURSIVE NormalizeFrom(_, _)
NormalizeFrom(rest, ret) ==
    IF rest = <<>> THEN ret
    ELSE IF Head(rest) = "." THEN NormalizeFrom(Tail(rest), ret)
    ELSE IF Head(rest) = ".."
         THEN NormalizeFrom(Tail(rest),
                  IF ret = <<>> \/ ret = <<"/">> THEN ret
                  ELSE SubSeq(ret, 1, Len(ret) - 1))
    ELSE NormalizeFrom(Tail(rest), Append(ret, Head(rest)))

Normalize(p) == NormalizeFrom(p, <<>>)

\* Path::canonicalize: the absolute path, walked on the file system; <<>> for
\* Err (a component does not exist), <<path>> for Ok(path).
RECURSIVE CanonicalizeFrom(_, _)
CanonicalizeFrom(rest, cur) ==
    IF rest = <<>> THEN <<cur>>
    ELSE IF Head(rest) = "/" THEN CanonicalizeFrom(Tail(rest), <<"/">>)
    ELSE IF Head(rest) = "." THEN CanonicalizeFrom(Tail(rest), cur)
    ELSE IF Head(rest) = ".."
         THEN CanonicalizeFrom(Tail(rest),
                  IF Len(cur) <= 1 THEN cur ELSE SubSeq(cur, 1, Len(cur) - 1))
    ELSE IF Exists(Append(cur, Head(rest)))
         THEN CanonicalizeFrom(Tail(rest), Append(cur, Head(rest)))
    ELSE <<>>

Canonicalize(p) == CanonicalizeFrom(IF IsAbsolute(p) THEN p ELSE Cwd \o p, <<>>)

\* File::open followed by read_to_string succeeds on a regular file; on a
\* directory the read fails.
Readable(p) == p \in DiskFiles

\* HashMap::insert
MapInsert(f, k, v) == [x \in (DOMAIN f) \cup {k} |-> IF x = k THEN v ELSE f[x]]

\* ResolvedFile; the contents are those of full_path on disk.
ResolvedFile(path, full_path, import_no) ==
    [path |-> path, full_path |-> full_path, import_no |-> import_no]

\* FileResolver::load_file over the resolver state st = [cached, files].
\* The result r is <<"Err", message, path>> or <<"Ok", file>>.
load_file(st, filename, path, import_no) ==
    IF filename \in DOMAIN st.cached
          /\ st.files[st.cached[filename] + 1].import_no = import_no
    THEN [st |-> st, r |-> <<"Ok", st.files[st.cached[filename] + 1]>>]
    ELSE IF ~Readable(path)
    THEN [st |-> st, r |-> <<"Err", "cannot read file", path>>]
    ELSE LET file == ResolvedFile(filename, path, import_no) IN
         [st |-> [cached |-> MapInsert(st.cached, path, Len(st.files)),
                  files |-> Append(st.files, file)],
          r |-> <<"Ok", file>>]

\* FileResolver::try_file.  The result r is <<"Err", message, path>>,
\* <<"None">> or <<"Some", file>> (load_file's <<"Ok", file>>).
try_file(st, filename, path, import_no) ==
    IF Normalize(path) \in DOMAIN st.cached
    THEN [st |-> st,
          r |-> <<"Some", [st.files[st.cached[Normalize(path)] + 1]
                             EXCEPT !.import_no = import_no]>>]
    ELSE IF Canonicalize(path) # <<>>
    THEN load_file(st, filename, Canonicalize(path)[1], import_no)
    ELSE [st |-> st, r |-> <<"None">>]

Found(r) == r[1] \in {"Some", "Ok"}

\* The mapping loop stopping at the first entry that matches.
RECURSIVE Remap_first_match(_, _, _, _)
Remap_first_match(ips, i, path_filename, remapped) ==
    IF i > Len(ips) THEN remapped
    ELSE IF ips[i].map # <<>> /\ IsPrefix(ips[i].map[1], path_filename)
         THEN Join(ips[i].path,
                   SubSeq(path_filename, Len(ips[i].map[1]) + 1, Len(path_filename)))
    ELSE Remap_first_match(ips, i + 1, path_filename, remapped)

\* The mapping loop of resolve: every entry is tried on the path as requested.
RECURSIVE Remap(_, _, _, _)
Remap(ips, i, path_filename, remapped) ==
    IF i > Len(ips) THEN remapped
    ELSE IF ips[i].map # <<>> /\ IsPrefix(ips[i].map[1], path_filename)
         THEN Remap(ips, i + 1, path_filename,
                    Join(ips[i].path,
                         SubSeq(path_filename, Len(ips[i].map[1]) + 1,
                                Len(path_filename))))
    ELSE Remap(ips, i + 1, path_filename, remapped)

\* The walk of resolve over the import paths from entry i on: the state, the
\* candidates collected and, when a try_file failed, its error.
RECURSIVE WalkImportPaths(_, _, _, _, _, _)
WalkImportPaths(st, ips, i, filename, path, result) ==
    IF i > Len(ips) THEN [st |-> st, result |-> result, err |-> <<>>]
    ELSE IF ips[i].map # <<>>
         THEN WalkImportPaths(st, ips, i + 1, filename, path, result)
    ELSE LET t == try_file(st, filename, Join(ips[i].path, path), <<i - 1>>) IN
         IF t.r[1] = "Err"
         THEN [st |-> t.st, result |-> result, err |-> <<t.r>>]
         ELSE WalkImportPaths(t.st, ips, i + 1, filename, path,
                  IF Found(t.r) THEN Append(result, t.r[2]) ELSE result)

NotFound(path_filename) == <<"Err", "file not found", path_filename>>

\* The match of resolve with the first candidate winning an ambiguity.
ResolveResult_firstwins(result, path_filename) ==
    IF Len(result) = 0 THEN NotFound(path_filename)
    ELSE <<"Ok", result[1]>>

\* The end of resolve: the match on the number of candidates.
ResolveResult(result, path_filename) ==
    IF Len(result) = 0 THEN NotFound(path_filename)
    ELSE IF Len(result) = 1 THEN <<"Ok", result[1]>>
    ELSE <<"Err", "found multiple files matching",
           [i \in 1..Len(result) |-> result[i].full_path]>>

\* resolve for a request that is not relative, after the parent-less attempt.
ResolveByImportPaths(st, ips, filename) ==
    LET path == Remap(ips, 1, filename, filename)
        w == WalkImportPaths(st, ips, 1, filename, path, <<>>) IN
    IF w.err # <<>> THEN [st |-> w.st, r |-> w.err[1]]
    ELSE IF \A i \in 1..Len(ips) : ips[i].map # <<>>
    THEN LET t == try_file(w.st, filename, path, <<>>) IN
         IF t.r[1] = "Err" THEN [st |-> t.st, r |-> t.r]
         ELSE [st |-> t.st,
               r |-> ResolveResult(IF Found(t.r) THEN Append(w.result, t.r[2])
                                   ELSE w.result, filename)]
    ELSE [st |-> w.st, r |-> ResolveResult(w.result, filename)]

\* resolve without the branch for ./ and ../ requests: they are looked up
\* like any other request.
resolve_in_no_relative_branch(st, ips, parent, filename) ==
    IF parent = <<>>
    THEN LET t == try_file(st, filename, filename, <<>>) IN
         IF t.r[1] = "Err" THEN [st |-> t.st, r |-> t.r]
         ELSE IF Found(t.r) THEN [st |-> t.st, r |-> <<"Ok", t.r[2]>>]
         ELSE IF IsAbsolute(filename) THEN [st |-> t.st, r |-> NotFound(filename)]
         ELSE ResolveByImportPaths(t.st, ips, filename)
    ELSE ResolveByImportPaths(st, ips, filename)

\* FileResolver::resolve(parent, filename) over the state st with the import
\* paths ips; parent is <<>> for None and <<file>> for Some(file).
resolve_in(st, ips, parent, filename) ==
    IF filename[1] \in {".", ".."}
    THEN IF parent # <<>>
         THEN LET t == try_file(st, filename,
                           Join(ParentDir(parent[1].full_path), filename),
                           parent[1].import_no) IN
              IF t.r[1] = "Err" THEN [st |-> t.st, r |-> t.r]
              ELSE IF Found(t.r) THEN [st |-> t.st, r |-> <<"Ok", t.r[2]>>]
              ELSE [st |-> t.st, r |-> NotFound(filename)]
         ELSE [st |-> st, r |-> NotFound(filename)]
    ELSE IF parent = <<>>
    THEN LET t == try_file(st, filename, filename, <<>>) IN
         IF t.r[1] = "Err" THEN [st |-> t.st, r |-> t.r]
         ELSE IF Found(t.r) THEN [st |-> t.st, r |-> <<"Ok", t.r[2]>>]
         ELSE IF IsAbsolute(filename) THEN [st |-> t.st, r |-> NotFound(filename)]
         ELSE ResolveByImportPaths(t.st, ips, filename)
    ELSE ResolveByImportPaths(st, ips, filename)

\* FileResolver::default()
ResolverInit ==
    /\ import_paths = <<>>
    /\ cached_paths = <<>>
    /\ files = <<>>
    /\ rlast = [op |-> "new"]

ResolverIdle == ResolverInit

\* The base paths, the mappings and the requests of the model.
BasePaths == {<<"/", "w">>, <<"/", "w", "lib">>}
MapNames == {<<"m">>}
Requests ==
    {<<"a.sol">>, <<".", "a.sol">>, <<"lib">>, <<"m", "a.sol">>,
     <<"/", "w", "a.sol">>}

\* FileResolver::add_import_path; the entry must be new (the assertion).
add_import_path(path) ==
    /\ Len(import_paths) < MaxImportPaths
    /\ \A i \in 1..Len(import_paths) :
          ~(import_paths[i].map = <<>> /\ import_paths[i].path = path)
    /\ import_paths' = Append(import_paths, [map |-> <<>>, path |-> path])
    /\ rlast' = [op |-> "add_import_path"]
    /\ UNCHANGED <<cached_paths, files>>
    /\ UNCHANGED nonResolver

\* FileResolver::add_import_map: replaces the entry of the same name.
add_import_map(map, path) ==
    /\ IF \E i \in 1..Len(import_paths) : import_paths[i].map = <<map>>
       THEN import_paths' =
              [i \in 1..Len(import_paths) |->
                  IF i = (CHOOSE j \in 1..Len(import_paths) :
                            /\ import_paths[j].map = <<map>>
                            /\ \A k \in 1..(j - 1) : import_paths[k].map # <<map>>)
                  THEN [map |-> <<map>>, path |-> path]
                  ELSE import_paths[i]]
       ELSE /\ Len(import_paths) < MaxImportPaths
            /\ import_paths' = Append(import_paths, [map |-> <<map>>, path |-> path])
    /\ rlast' = [op |-> "add_import_map"]
    /\ UNCHANGED <<cached_paths, files>>
    /\ UNCHANGED nonResolver

\* FileResolver::resolve
resolve(parent, filename) ==
    LET o == resolve_in([cached |-> cached_paths, files |-> files],
                        import_paths, parent, filename) IN
    /\ Len(o.st.files) <= MaxFiles
    /\ cached_paths' = o.st.cached
    /\ files' = o.st.files
    /\ rlast' = [op |-> "resolve", parent |-> parent, filename |-> filename,
                 r |-> o.r]
    /\ UNCHANGED import_paths
    /\ UNCHANGED nonResolver

\* The parent of a request is a file the resolver handed out before.
Parents ==
    {<<>>} \cup {<<files[i]>> : i \in 1..Len(files)}
           \cup (IF rlast.op = "resolve" /\ rlast.r[1] = "Ok"
                 THEN {<<rlast.r[2]>>} ELSE {})

ResolverNext ==
    \/ \E path \in BasePaths : add_import_path(path)
    \/ \E map \in MapNames, path \in BasePaths : add_import_map(map, path)
    \/ \E parent \in Parents, filename \in Requests : resolve(parent, filename)

\* Relative requests: a file and a directory next to the parent, the file one
\* directory up, a name that exists nowhere; "a.sol" is requested to obtain
\* the parents.  A mapping named "." is a prefix of every ./ request.
RelativeRequests ==
    {<<".", "a.sol">>, <<".", "lib">>, <<"..", "a.sol">>, <<".", "b.sol">>}
RelativeMapNames == {<<".">>}

RelativeNext ==
    \/ \E path \in BasePaths : add_import_path(path)
    \/ \E map \in RelativeMapNames, path \in BasePaths : add_import_map(map, path)
    \/ \E parent \in Parents, filename \in RelativeRequests \cup {<<"a.sol">>} :
          resolve(parent, filename)

\* Mappings whose names are prefixes of one another, and requests under one,
\* both or none of them.
RemapNames == {<<"m">>, <<"m", "lib">>}
RemapRequests == {<<"m", "a.sol">>, <<"m", "lib", "a.sol">>, <<"a.sol">>}

RemapNext ==
    \/ \E map \in RemapNames, path \in BasePaths : add_import_map(map, path)
    \/ \E parent \in Parents, filename \in RemapRequests :
          resolve(parent, filename)

(***************************************************************************)
(* The parser's error channel (src/src/parser/mod.rs).                     *)
(***************************************************************************)
\* most errors the parser recovers from in one parse
MaxParseErrors == 2

\* lalrpop_util::ParseError: the variant with its location(s).
ParseErrorKinds ==
    {"InvalidToken", "UnrecognizedToken", "User", "ExtraToken", "UnrecognizedEof"}
ParseErrors == [kind : ParseErrorKinds, l : {0, 3}]

\* The message of each variant, as a code.
ParseErrorMessage(kind) ==
    CASE kind = "InvalidToken" -> <<10>>
      [] kind = "UnrecognizedToken" -> <<11>>
      [] kind = "User" -> <<12>>
      [] kind = "ExtraToken" -> <<13>>
      [] kind = "UnrecognizedEof" -> <<14>>

\* impl From<(&ParseError, usize)> for Diagnostic: a token spans two bytes.
FromParseError(e, no) ==
    Diagnostic(IF e.kind \in {"InvalidToken", "UnrecognizedEof"}
               THEN <<1, no, e.l, e.l>> ELSE <<1, no, e.l, e.l + 2>>,
               "Error", "ParserError", ParseErrorMessage(e.kind), <<>>)

\* The closure of map_err with the terminal error put first.
parse_map_err_terminal_first(errors, err, no) ==
    <<FromParseError(err, no)>>
        \o [i \in 1..Len(errors) |-> FromParseError(errors[i], no)]

\* The closure of map_err in parse: the recovered errors, then the terminal one.
parse_map_err(errors, err, no) ==
    [i \in 1..Len(errors) |-> FromParseError(errors[i], no)]
        \o <<FromParseError(err, no)>>

ParseInit ==
    /\ perrors = <<>>
    /\ pno \in {0, 1}
    /\ presult = <<"parsing">>

ParseIdle ==
    /\ perrors = <<>>
    /\ pno = 0
    /\ presult = <<"parsing">>

\* The generated parser recovers from an error and records it in errors.
parse_recover(e) ==
    /\ presult = <<"parsing">>
    /\ Len(perrors) < MaxParseErrors
    /\ perrors' = Append(perrors, e)
    /\ UNCHANGED <<pno, presult>>
    /\ UNCHANGED nonParse

\* parse returns: the parser's Ok, or its Err(err) run through map_err.
parse(res) ==
    /\ presult = <<"parsing">>
    /\ presult' = IF res = <<>> THEN <<"Ok">>
                  ELSE <<"Err", parse_map_err(perrors, res[1], pno), res[1]>>
    /\ UNCHANGED <<perrors, pno>>
    /\ UNCHANGED nonParse

ParseNext ==
    \/ \E e \in ParseErrors : parse_recover(e)
    \/ \E res \in {<<>>} \cup {<<e>> : e \in ParseErrors} : parse(res)

(***************************************************************************)
(* Plain imports (src/src/semantic/import.rs), as two runs on the same     *)
(* inputs.  The importing file is file 0, the imported file is file 1.     *)
(***************************************************************************)
Runs == {1, 2}
ImportNames == {"x", "y"}
\* A key of a symbol map: <<file_no, contract_no, name>>, file scope only.
SymbolKey(no, name) == <<no, <<>>, name>>
SymbolKeys == {SymbolKey(no, name) : no \in {0, 1}, name \in ImportNames}
\* A Symbol is <<variant, indices>>; NoSymbol stands for a key without entry.
NoSymbol == <<>>
VariableSymbolValues == {<<"Struct", <<0>>>>, <<"Enum", <<0>>>>}
FunctionSymbolValues == {<<"Function", <<0>>>>}

\* Context::add_symbol: a free key takes the symbol; a taken key keeps its
\* symbol and an error is recorded.  c is one run's [vs, fs, diags].
ctx_add_symbol(c, function, key, symbol) ==
    LET table == IF function THEN c.fs ELSE c.vs IN
    IF table[key] # NoSymbol
    THEN [c EXCEPT !.diags = Append(@, [level |-> "Error", name |-> key[3]])]
    ELSE IF function THEN [c EXCEPT !.fs[key] = symbol]
    ELSE [c EXCEPT !.vs[key] = symbol]

\* ImportResolver::add_symbol: nothing to do when the symbol is there already.
add_symbol(c, function, key, symbol) ==
    IF (IF function THEN c.fs ELSE c.vs)[key] # symbol
    THEN ctx_add_symbol(c, function, key, symbol)
    ELSE c

\* The for loop over exports, a sequence of keys of the imported file.
RECURSIVE AddExports(_, _, _, _)
AddExports(c, function, exports, from) ==
    IF exports = <<>> THEN c
    ELSE AddExports(add_symbol(c, function, SymbolKey(0, Head(exports)[3]),
                               from[Head(exports)]),
                    function, Tail(exports), from)

\* The orders in which iter() can yield the entries ks of a HashMap.
IterationOrders(ks) ==
    {o \in [1..Cardinality(ks) -> ks] : \A i, j \in DOMAIN o : o[i] = o[j] => i = j}

\* The keys visit_import_plain filters out of a map for the imported file.
Exported(table) == {k \in SymbolKeys : k[1] = 1 /\ table[k] # NoSymbol}

ImportInit ==
    /\ \E vs \in [SymbolKeys -> VariableSymbolValues \cup {NoSymbol}] :
          variable_symbols = [r \in Runs |-> vs]
    /\ \E fs \in [SymbolKeys -> FunctionSymbolValues \cup {NoSymbol}] :
          function_symbols = [r \in Runs |-> fs]
    /\ import_diags = [r \in Runs |-> <<>>]
    /\ import_done = [r \in Runs |-> FALSE]

ImportIdle ==
    /\ variable_symbols = [r \in Runs |-> [k \in SymbolKeys |-> NoSymbol]]
    /\ function_symbols = [r \in Runs |-> [k \in SymbolKeys |-> NoSymbol]]
    /\ import_diags = [r \in Runs |-> <<>>]
    /\ import_done = [r \in Runs |-> FALSE]

\* ImportResolver::visit_import_plain in run r, with the orders vo and fo in
\* which the two maps are iterated.
visit_import_plain(r, vo, fo) ==
    LET c0 == [vs |-> variable_symbols[r], fs |-> function_symbols[r],
               diags |-> import_diags[r]]
        c1 == AddExports(c0, FALSE, vo, variable_symbols[r])
        c2 == AddExports(c1, TRUE, fo, function_symbols[r]) IN
    /\ ~import_done[r]
    /\ variable_symbols' = [variable_symbols EXCEPT ![r] = c2.vs]
    /\ function_symbols' = [function_symbols EXCEPT ![r] = c2.fs]
    /\ import_diags' = [import_diags EXCEPT ![r] = c2.diags]
    /\ import_done' = [import_done EXCEPT ![r] = TRUE]
    /\ UNCHANGED nonImport

ImportNext ==
    \E r \in Runs :
       \E vo \in IterationOrders(Exported(variable_symbols[r])),
          fo \in IterationOrders(Exported(function_symbols[r])) :
          visit_import_plain(r, vo, fo)

(***************************************************************************)
(* The per-file pipeline (src/src/semantic/analyzer.rs) and its import     *)
(* pass (src/src/semantic/import.rs).  A file is named by its full path.   *)
(***************************************************************************)
\* most import directives in one file
MaxImports == 2

\* The files on disk; MainFile is the one handed to semantic::analyze.
SourceFiles == {"A", "B"}
MainFile == "A"

\* An import directive: its kind, and the full path FileResolver::resolve
\* returns for its filename (<<>> when resolve returns Err).  A directive of
\* kind "rename" names a symbol its file does not export.
ImportDirectives ==
    {[kind |-> "plain", to |-> <<"A">>],
     [kind |-> "plain", to |-> <<"B">>],
     [kind |-> "plain", to |-> <<>>],
     [kind |-> "empty", to |-> <<>>],
     [kind |-> "rename", to |-> <<"B">>]}

ErrorDiag(no, message) == [level |-> "Error", no |-> no, message |-> message]

\* The test of process_import_file_no looking at the main file only.
is_loaded_main_only(full_path) == ctx_files # <<>> /\ ctx_files[1] = full_path

\* ctx.files.iter().any(|f| f.path == file.full_path)
is_loaded(full_path) == \E i \in 1..Len(ctx_files) : ctx_files[i] = full_path

\* An activation of analyze: the file, its number, the import directive the
\* import pass is at, and where the activation stands: in the import pass
\* ("imports"), waiting for the analysis of an import ("calling"), or about
\* to return Ok ("ok") or Err ("err").
Frame(path, no, i, pc) == [path |-> path, no |-> no, i |-> i, pc |-> pc]

\* analyze going on with the passes after a parse failure.
analyze_enter_parse_error_ignored(path) ==
    LET no == Len(ctx_files) IN
    [diags |-> IF src_parses[path] THEN <<>> ELSE <<ErrorDiag(no, "parser error")>>,
     log |-> <<[no |-> no, pass |-> "parse"], [no |-> no, pass |-> "collect"],
               [no |-> no, pass |-> "types"], [no |-> no, pass |-> "pragma"]>>,
     frame |-> Frame(path, no, 1, "imports")]

\* analyze resolving the pragmas before the type declarations.
analyze_enter_pragma_first(path) ==
    LET no == Len(ctx_files) IN
    IF src_parses[path]
    THEN [diags |-> <<>>,
          log |-> <<[no |-> no, pass |-> "parse"], [no |-> no, pass |-> "collect"],
                    [no |-> no, pass |-> "pragma"], [no |-> no, pass |-> "types"]>>,
          frame |-> Frame(path, no, 1, "imports")]
    ELSE [diags |-> <<ErrorDiag(no, "parser error")>>,
          log |-> <<[no |-> no, pass |-> "parse"]>>,
          frame |-> Frame(path, no, 1, "err")]

\* analyze up to the import pass: the file is pushed and parsed; a file that
\* parses is collected and its types and pragmas are resolved.  The result is
\* what the activation adds to files, diagnostics, log and stack.
analyze_enter(path) ==
    LET no == Len(ctx_files) IN
    IF src_parses[path]
    THEN [diags |-> <<>>,
          log |-> <<[no |-> no, pass |-> "parse"], [no |-> no, pass |-> "collect"],
                    [no |-> no, pass |-> "types"], [no |-> no, pass |-> "pragma"]>>,
          frame |-> Frame(path, no, 1, "imports")]
    ELSE [diags |-> <<ErrorDiag(no, "parser error")>>,
          log |-> <<[no |-> no, pass |-> "parse"]>>,
          frame |-> Frame(path, no, 1, "err")]

\* import.visit(self) for the directive d of the activation f, once the file
\* number of the import is known: a rename of a symbol that is not exported
\* records an error and fails; otherwise the next directive is up.
import_visit(f, d) ==
    IF d.kind = "rename"
    THEN [diags |-> <<ErrorDiag(f.no, "does not export")>>,
          frame |-> [f EXCEPT !.pc = "err"]]
    ELSE [diags |-> <<>>, frame |-> [f EXCEPT !.i = @ + 1, !.pc = "imports"]]

Top == stack[Len(stack)]
Below == SubSeq(stack, 1, Len(stack) - 1)

AnalyzeInit ==
    /\ src_imports \in [SourceFiles -> SeqsUpTo(ImportDirectives, MaxImports)]
    /\ src_parses \in [SourceFiles -> BOOLEAN]
    /\ ctx_files = <<>>
    /\ ctx_diags = <<>>
    /\ stack = <<>>
    /\ calls = [f \in SourceFiles |-> 0]
    /\ log = <<>>
    /\ finished = FALSE

AnalyzeIdle ==
    /\ src_imports = [f \in SourceFiles |-> <<>>]
    /\ src_parses = [f \in SourceFiles |-> TRUE]
    /\ ctx_files = <<>>
    /\ ctx_diags = <<>>
    /\ stack = <<>>
    /\ calls = [f \in SourceFiles |-> 0]
    /\ log = <<>>
    /\ finished = FALSE

\* semantic::analyze is called for the main file on a fresh context.
analyze_main ==
    LET e == analyze_enter(MainFile) IN
    /\ stack = <<>> /\ ctx_files = <<>> /\ ~finished
    /\ ctx_files' = <<MainFile>>
    /\ calls' = [calls EXCEPT ![MainFile] = @ + 1]
    /\ ctx_diags' = ctx_diags \o e.diags
    /\ log' = log \o e.log
    /\ stack' = <<e.frame>>
    /\ UNCHANGED <<src_imports, src_parses, finished>>
    /\ UNCHANGED nonAnalyze

\* ImportResolver::visit_import for the next directive of the innermost
\* activation, up to the call of analyze for a file that is not loaded.
visit_import ==
    /\ stack # <<>> /\ Top.pc = "imports" /\ Top.i <= Len(src_imports[Top.path])
    /\ LET d == src_imports[Top.path][Top.i]
           seen == Append(log, [no |-> Top.no, pass |-> "import"]) IN
       IF d.kind = "empty"
       THEN /\ ctx_diags' = Append(ctx_diags, ErrorDiag(Top.no, "import path empty"))
            /\ stack' = Append(Below, [Top EXCEPT !.pc = "err"])
            /\ log' = seen
            /\ UNCHANGED <<ctx_files, calls>>
       ELSE IF d.to = <<>>
       THEN /\ ctx_diags' = Append(ctx_diags, ErrorDiag(Top.no, "file not found"))
            /\ stack' = Append(Below, [Top EXCEPT !.pc = "err"])
            /\ log' = seen
            /\ UNCHANGED <<ctx_files, calls>>
       ELSE IF is_loaded(d.to[1])
       THEN LET v == import_visit(Top, d) IN
            /\ ctx_diags' = ctx_diags \o v.diags
            /\ stack' = Append(Below, v.frame)
            /\ log' = seen
            /\ UNCHANGED <<ctx_files, calls>>
       ELSE LET e == analyze_enter(d.to[1]) IN
            /\ ctx_files' = Append(ctx_files, d.to[1])
            /\ calls' = [calls EXCEPT ![d.to[1]] = @ + 1]
            /\ ctx_diags' = ctx_diags \o e.diags
            /\ log' = seen \o e.log
            /\ stack' = Append(Append(Below, [Top EXCEPT !.pc = "calling"]), e.frame)
    /\ UNCHANGED <<src_imports, src_parses, finished>>
    /\ UNCHANGED nonAnalyze

\* The end of the import pass without an error: the contract resolver and
\* the resolver of the global using directives run, and analyze returns Ok.
analyze_contracts_and_using ==
    /\ stack # <<>> /\ Top.pc = "imports" /\ Top.i > Len(src_imports[Top.path])
    /\ log' = log \o <<[no |-> Top.no, pass |-> "contract"],
                       [no |-> Top.no, pass |-> "using"]>>
    /\ stack' = Append(Below, [Top EXCEPT !.pc = "ok"])
    /\ UNCHANGED <<src_imports, src_parses, ctx_files, ctx_diags, calls, finished>>
    /\ UNCHANGED nonAnalyze

\* analyze returns.  To semantic::analyze, which is done; or into
\* process_import_file_no, which fails if the context has errors and else
\* goes on with the directive.
analyze_return ==
    /\ stack # <<>> /\ Top.pc \in {"ok", "err"}
    /\ IF Len(stack) = 1
       THEN /\ stack' = <<>>
            /\ finished' = TRUE
            /\ UNCHANGED ctx_diags
       ELSE LET caller == stack[Len(stack) - 1]
                rest == SubSeq(stack, 1, Len(stack) - 2)
                d == src_imports[caller.path][caller.i] IN
            /\ UNCHANGED finished
            /\ IF \E j \in 1..Len(ctx_diags) : ctx_diags[j].level = "Error"
               THEN /\ stack' = Append(rest, [caller EXCEPT !.pc = "err"])
                    /\ UNCHANGED ctx_diags
               ELSE LET v == import_visit(caller, d) IN
                    /\ stack' = Append(rest, v.frame)
                    /\ ctx_diags' = ctx_diags \o v.diags
    /\ UNCHANGED <<src_imports, src_parses, ctx_files, calls, log>>
    /\ UNCHANGED nonAnalyze

AnalyzeNext ==
    \/ analyze_main
    \/ visit_import
    \/ analyze_contracts_and_using
    \/ analyze_return

(***************************************************************************)
(* Annotation collection (src/src/semantic/collector.rs).  A part is named *)
(* by its position: <<i>> at file scope, <<i, j>> in the body of the       *)
(* contract at i; an annotation's position is its loc.                     *)
(***************************************************************************)
\* most parts of a source unit
MaxParts == 3
\* most parts of a contract body
MaxContractParts == 2

ContractPartKinds == {"annotation", "item"}
PtParts ==
    {[kind |-> "annotation", parts |-> <<>>], [kind |-> "item", parts |-> <<>>]}
       \cup {[kind |-> "contract", parts |-> b] :
                b \in SeqsUpTo(ContractPartKinds, MaxContractParts)}

\* The loop of visit_contract from part j on.
RECURSIVE VisitContractParts(_, _, _, _, _)
VisitContractParts(body, i, j, parts, annotations) ==
    IF j > Len(body) THEN [parts |-> parts, annotations |-> annotations]
    ELSE IF body[j] = "annotation"
         THEN VisitContractParts(body, i, j + 1, parts, Append(annotations, <<i, j>>))
    ELSE VisitContractParts(body, i, j + 1,
             Append(parts, [annotations |-> annotations, at |-> <<i, j>>]), <<>>)

\* visit_contract leaving the file-scope annotations in the buffer.
visit_contract_keepbuffer(c, i, body) ==
    LET r == VisitContractParts(body, i, 1, <<>>, <<>>) IN
    [c EXCEPT
       !.diags = @ \o [k \in 1..Len(r.annotations) |-> DiagError(r.annotations[k], <<21>>)],
       !.contracts = Append(@, [contract_no |-> c.no, at |-> <<i>>,
                                annotations |-> <<>>, parts |-> r.parts]),
       !.no = @ + 1]

\* AnnotationCollector::visit_contract for the contract at i.
visit_contract(c, i, body) ==
    LET r == VisitContractParts(body, i, 1, <<>>, <<>>) IN
    [c EXCEPT
       !.diags = @ \o [k \in 1..Len(r.annotations) |-> DiagError(r.annotations[k], <<21>>)],
       !.contracts = Append(@, [contract_no |-> c.no, at |-> <<i>>,
                                annotations |-> c.annotations, parts |-> r.parts]),
       !.annotations = <<>>,
       !.no = @ + 1]

\* The loop of visit_source_unit from part i on.
RECURSIVE VisitSourceUnitParts(_, _, _)
VisitSourceUnitParts(su, i, c) ==
    IF i > Len(su) THEN c
    ELSE IF su[i].kind = "annotation"
         THEN VisitSourceUnitParts(su, i + 1,
                  [c EXCEPT !.annotations = Append(@, <<i>>)])
    ELSE IF su[i].kind = "contract"
         THEN VisitSourceUnitParts(su, i + 1, visit_contract(c, i, su[i].parts))
    ELSE VisitSourceUnitParts(su, i + 1,
             [c EXCEPT !.parts = Append(@, [annotations |-> c.annotations, at |-> <<i>>]),
                       !.annotations = <<>>])

\* AnnotationCollector::new on a context without contracts or diagnostics.
NewCollector ==
    [annotations |-> <<>>, parts |-> <<>>, contracts |-> <<>>, no |-> 0,
     diags |-> <<>>]

CollectInit ==
    /\ source_unit \in SeqsUpTo(PtParts, MaxParts)
    /\ collector = NewCollector
    /\ tree = <<>>
    /\ cstage = "new"

CollectIdle ==
    /\ source_unit = <<>>
    /\ collector = NewCollector
    /\ tree = <<>>
    /\ cstage = "new"

\* AnnotationCollector::visit_source_unit
visit_source_unit ==
    /\ cstage = "new"
    /\ collector' = VisitSourceUnitParts(source_unit, 1, collector)
    /\ cstage' = "visited"
    /\ UNCHANGED <<source_unit, tree>>
    /\ UNCHANGED nonCollect

\* AnnotationCollector::collect
collect ==
    /\ cstage = "visited"
    /\ tree' = <<[parts |-> collector.parts, contracts |-> collector.contracts]>>
    /\ collector' =
          [collector EXCEPT
             !.diags = @ \o [k \in 1..Len(collector.annotations) |->
                                DiagError(collector.annotations[k], <<20>>)],
             !.parts = <<>>,
             !.contracts = <<>>]
    /\ cstage' = "collected"
    /\ UNCHANGED source_unit
    /\ UNCHANGED nonCollect

CollectNext == visit_source_unit \/ collect

(***************************************************************************)
(* Type declarations (src/src/semantic/types.rs), for the parts of file 0  *)
(* that carry no annotation.                                               *)
(***************************************************************************)
\* most type declarations resolved
MaxDecls == 3
\* the most values an enum may have
EnumLimit == 256

\* The value lists of the enums of the model: n distinct values for the
\* sizes around the limits, and a list with a value twice.
Iota(n) == [k \in 1..n |-> k]
EnumValueLists ==
    {Iota(n) : n \in {0, 1, EnumLimit - 1, EnumLimit, EnumLimit + 1}}
       \cup {<<1, 2, 1>>}

\* The size check of enum_decl with the limit itself refused.
enum_size_errors_limit_refused(values) ==
    IF values = <<>> THEN <<"has no fields">>
    ELSE IF Len(values) >= EnumLimit THEN <<"more than the 256 limit">>
    ELSE <<>>

\* The size check of enum_decl: the errors it pushes.
enum_size_errors(values) ==
    IF values = <<>> THEN <<"has no fields">>
    ELSE IF Len(values) > EnumLimit THEN <<"more than the 256 limit">>
    ELSE <<>>

\* The duplicate check of enum_decl, a loop over the values: a value already
\* among the entries is reported, any other value becomes an entry, so that
\* there is one error for each value beyond the distinct ones.
EnumEntries(values) ==
    LET entries == {values[i] : i \in 1..Len(values)} IN
    [entries |-> entries,
     errs |-> [k \in 1..(Len(values) - Cardinality(entries)) |-> "duplicate enum value"]]

\* Context::add_symbol on the variable map: the map afterwards, whether the
\* symbol was accepted, and the errors pushed.
TypeAddSymbol(name, symbol) ==
    LET c == ctx_add_symbol([vs |-> type_symbols, fs |-> type_symbols, diags |-> <<>>],
                            FALSE, SymbolKey(0, name), symbol) IN
    [symbols |-> c.vs, ok |-> c.diags = <<>>,
     errs |-> [k \in 1..Len(c.diags) |-> "already defined"]]

DeclCount == Len(enums) + Len(structs) + Len(events) + Len(error_decls)

TypeInit ==
    /\ enums = <<>>
    /\ structs = <<>>
    /\ events = <<>>
    /\ error_decls = <<>>
    /\ type_symbols = [k \in SymbolKeys |-> NoSymbol]
    /\ tlast = [op |-> "new", nvalues |-> 0, errs |-> <<>>]

TypeIdle == TypeInit

\* TypeResolver::visit_enum, that is enum_decl(def, None).
visit_enum(name, values) ==
    LET size == enum_size_errors(values)
        dup == EnumEntries(values)
        a == TypeAddSymbol(name, <<"Enum", <<Len(enums)>>>>) IN
    /\ DeclCount < MaxDecls
    /\ enums' = Append(enums, Cardinality(dup.entries))
    /\ type_symbols' = a.symbols
    /\ tlast' = [op |-> "visit_enum", nvalues |-> Len(values),
                 errs |-> size \o dup.errs \o a.errs]
    /\ UNCHANGED <<structs, events, error_decls>>
    /\ UNCHANGED nonType

\* TypeResolver::visit_struct
visit_struct(name) ==
    LET a == TypeAddSymbol(name, <<"Struct", <<Len(structs)>>>>) IN
    /\ DeclCount < MaxDecls
    /\ type_symbols' = a.symbols
    /\ structs' = IF a.ok THEN Append(structs, name) ELSE structs
    /\ tlast' = [op |-> "visit_struct", nvalues |-> 0, errs |-> a.errs]
    /\ UNCHANGED <<enums, events, error_decls>>
    /\ UNCHANGED nonType

\* visit_event without the push of the EventDecl of an overload.
visit_event_nopush(name) ==
    LET key == SymbolKey(0, name)
        event_no == Len(events)
        overload == type_symbols[key] # NoSymbol /\ type_symbols[key][1] = "Event"
        a == TypeAddSymbol(name, <<"Event", <<event_no>>>>) IN
    /\ DeclCount < MaxDecls
    /\ IF overload
       THEN /\ type_symbols' =
                 [type_symbols EXCEPT ![key] = <<"Event", Append(@[2], event_no)>>]
            /\ UNCHANGED events
            /\ tlast' = [op |-> "visit_event", nvalues |-> 0, errs |-> <<>>]
       ELSE /\ type_symbols' = a.symbols
            /\ events' = IF a.ok THEN Append(events, name) ELSE events
            /\ tlast' = [op |-> "visit_event", nvalues |-> 0, errs |-> a.errs]
    /\ UNCHANGED <<enums, structs, error_decls>>
    /\ UNCHANGED nonType

\* TypeResolver::visit_event
visit_event(name) ==
    LET key == SymbolKey(0, name)
        event_no == Len(events)
        overload == type_symbols[key] # NoSymbol /\ type_symbols[key][1] = "Event"
        a == TypeAddSymbol(name, <<"Event", <<event_no>>>>) IN
    /\ DeclCount < MaxDecls
    /\ IF overload
       THEN /\ type_symbols' =
                 [type_symbols EXCEPT ![key] = <<"Event", Append(@[2], event_no)>>]
            /\ events' = Append(events, name)
            /\ tlast' = [op |-> "visit_event", nvalues |-> 0, errs |-> <<>>]
       ELSE /\ type_symbols' = a.symbols
            /\ events' = IF a.ok THEN Append(events, name) ELSE events
            /\ tlast' = [op |-> "visit_event", nvalues |-> 0, errs |-> a.errs]
    /\ UNCHANGED <<enums, structs, error_decls>>
    /\ UNCHANGED nonType

\* TypeResolver::visit_error; keyword tells whether the keyword is `error`.
visit_error(name, keyword) ==
    LET a == TypeAddSymbol(name, <<"Error", <<Len(error_decls)>>>>) IN
    /\ DeclCount < MaxDecls
    /\ IF ~keyword
       THEN /\ tlast' = [op |-> "visit_error", nvalues |-> 0,
                         errs |-> <<"'function', 'error', or 'event' expected">>]
            /\ UNCHANGED <<type_symbols, error_decls>>
       ELSE /\ type_symbols' = a.symbols
            /\ error_decls' = IF a.ok THEN Append(error_decls, name) ELSE error_decls
            /\ tlast' = [op |-> "visit_error", nvalues |-> 0, errs |-> a.errs]
    /\ UNCHANGED <<enums, structs, events>>
    /\ UNCHANGED nonType

TypeNext ==
    \/ \E name \in ImportNames, values \in EnumValueLists : visit_enum(name, values)
    \/ \E name \in ImportNames : visit_struct(name)
    \/ \E name \in ImportNames : visit_event(name)
    \/ \E name \in ImportNames, keyword \in BOOLEAN : visit_error(name, keyword)

(***************************************************************************)
(* Free functions (src/src/semantic/function.rs).  One FunctionResolver    *)
(* visits the function definitions of file 0, one call after the other.    *)
(***************************************************************************)
\* most functions registered
MaxFunctions == 2
\* most parameters held by the resolver
MaxParams == 2

\* The attribute lists, parameter lists (a parameter is its type, or
\* "missing" for a parameter without one) and function definitions visited.
AttributeLists == {<<>>, <<"view">>, <<"view", "pure">>, <<"virtual">>}
ParameterLists == {<<>>, <<"uint">>, <<"bool">>, <<"missing">>}
FunctionDefinitions ==
    [name : {<<>>} \cup {<<n>> : n \in ImportNames}, attributes : AttributeLists,
     params : ParameterLists, body : BOOLEAN]

FuncError(message, notes) == [level |-> "Error", message |-> message, notes |-> notes]

\* The signature Function::new derives from the name and the parameter types.
Signature(name, params) == <<name, params>>

\* FunctionResolver::visit_function_attribute for each attribute in turn;
\* st is [fr, diags].
RECURSIVE VisitAttributes(_, _)
VisitAttributes(attributes, st) ==
    IF attributes = <<>> THEN st
    ELSE LET a == Head(attributes) IN
         VisitAttributes(Tail(attributes),
            IF a \in {"pure", "view"}
            THEN IF st.fr.mutability # <<>>
                 THEN [fr |-> [st.fr EXCEPT !.success = FALSE, !.mutability = <<a>>],
                       diags |-> Append(st.diags, FuncError("function redeclared", 1))]
                 ELSE [st EXCEPT !.fr.mutability = <<a>>]
            ELSE [fr |-> [st.fr EXCEPT !.success = FALSE],
                  diags |-> Append(st.diags,
                               FuncError("only functions in contracts can be virtual", 0))])

\* FunctionResolver::visit_parameter for each parameter in turn.
RECURSIVE VisitParameters(_, _)
VisitParameters(params, st) ==
    IF params = <<>> THEN st
    ELSE LET p == Head(params) IN
         VisitParameters(Tail(params),
            IF p = "missing"
            THEN [fr |-> [st.fr EXCEPT !.params_success = FALSE],
                  diags |-> Append(st.diags, FuncError("missing parameter type", 0))]
            ELSE [st EXCEPT !.fr.params = Append(@, p)])

\* Context::add_symbol on the function map.
FuncAddSymbol(name, symbol) ==
    ctx_add_symbol([vs |-> func_symbols, fs |-> func_symbols, diags |-> <<>>],
                   TRUE, SymbolKey(0, name), symbol)

NewFunctionResolver ==
    [success |-> TRUE, params_success |-> TRUE, mutability |-> <<>>,
     params |-> <<>>, resolve_bodies |-> <<>>]

FuncInit ==
    /\ ctx_functions = <<>>
    /\ func_symbols = [k \in SymbolKeys |-> NoSymbol]
    /\ fresolver = NewFunctionResolver
    /\ flast = <<>>

FuncIdle == FuncInit

\* The functions of Context.functions with the signature sig, in order.
WithSignature(sig) == SelectSeq(ctx_functions, LAMBDA f : f.signature = sig)

\* FunctionResolver::visit_function
visit_function(func) ==
    LET a == VisitAttributes(func.attributes, [fr |-> fresolver, diags |-> <<>>])
        p == VisitParameters(func.params, a)
        b == IF func.body THEN p
             ELSE [fr |-> [p.fr EXCEPT !.success = FALSE],
                   diags |-> Append(p.diags, FuncError("missing function body", 0))]
        name == func.name[1]
        signature == Signature(name, b.fr.params)
        func_no == Len(ctx_functions)
        key == SymbolKey(0, name)
        added == FuncAddSymbol(name, <<"Function", <<func_no>>>>)
    IN
    /\ Len(ctx_functions) < MaxFunctions
    /\ Len(fresolver.params) + Len(func.params) <= MaxParams
    /\ IF ~b.fr.success \/ ~b.fr.params_success
       THEN /\ fresolver' = b.fr
            /\ flast' = b.diags
            /\ UNCHANGED <<ctx_functions, func_symbols>>
       ELSE IF func.name = <<>>
       THEN /\ fresolver' = b.fr
            /\ flast' = Append(b.diags, FuncError("missing function name", 0))
            /\ UNCHANGED <<ctx_functions, func_symbols>>
       ELSE IF WithSignature(signature) # <<>>
       THEN /\ fresolver' = b.fr
            /\ flast' = Append(b.diags,
                           FuncError("overloaded function with this signature already exist", 1))
            /\ UNCHANGED <<ctx_functions, func_symbols>>
       ELSE /\ ctx_functions' = Append(ctx_functions,
                               [name |-> name, params |-> b.fr.params,
                                signature |-> signature])
            /\ fresolver' = [b.fr EXCEPT !.resolve_bodies = Append(@, <<func_no, func>>)]
            /\ IF func_symbols[key] # NoSymbol /\ func_symbols[key][1] = "Function"
               THEN /\ func_symbols' =
                          [func_symbols EXCEPT ![key] = <<"Function", Append(@[2], func_no)>>]
                    /\ flast' = b.diags
               ELSE /\ func_symbols' = added.fs
                    /\ flast' = b.diags \o [k \in 1..Len(added.diags) |->
                                               FuncError("already defined", 1)]
    /\ UNCHANGED nonFunc

FuncNext == \E func \in FunctionDefinitions : visit_function(func)

(***************************************************************************)
(* Mutability checker (src/src/semantic/mutability.rs).  Context.functions *)
(* holds a function and, at index 1, a modifier the function may invoke.   *)
(* A body is the sequence of state accesses the walk over it meets.        *)
(***************************************************************************)
\* most state accesses in one body
MaxAccesses == 1

\* enum Access, in its derived order
Access == [None |-> 0, Read |-> 1, Write |-> 2, Value |-> 3]

\* The accesses of a body: a storage read, a storage write and msg.value.
AccessKinds == {"read", "write", "msg.value"}
Bodies == SeqsUpTo(AccessKinds, MaxAccesses)

Mutabilities == {"pure", "view", "nonpayable", "payable"}

\* The functions checked: modifiers is the list of invoked function numbers.
CheckedFunctions ==
    [no : {0, 1}, ty : {"Function", "Constructor", "Fallback"},
     mutability : Mutabilities, is_virtual : BOOLEAN, is_accessor : BOOLEAN,
     is_public : BOOLEAN, modifiers : {<<>>, <<1>>}, body : Bodies]

ModifierFunctions ==
    [no : {0}, ty : {"Modifier"}, mutability : {"nonpayable"}, is_virtual : {FALSE},
     is_accessor : {FALSE}, is_public : {FALSE}, modifiers : {<<>>}, body : Bodies]

\* The declared_access of check_mutability.
declared_access(func) ==
    CASE func.mutability = "pure" -> Access.None
      [] func.mutability = "view" -> Access.Read
      [] func.mutability = "nonpayable" -> Access.Write
      [] func.mutability = "payable" -> Access.Value

\* check_level with a declared level equal to the desired one refused.
check_level_strict(st, func, desired) ==
    IF declared_access(func) > desired THEN st
    ELSE [st EXCEPT !.diagnostic =
            Append(@, [level |-> "Error", loc |-> "expression",
                       message |-> "function declared but this expression accesses"])]

\* StateCheck::check_level; st is [diagnostic, required_access, modifier].
check_level(st, func, desired) ==
    IF declared_access(func) >= desired THEN st
    ELSE [st EXCEPT !.diagnostic =
            Append(@, [level |-> "Error",
                       loc |-> IF st.modifier THEN "modifier" ELSE "expression",
                       message |-> IF st.modifier
                                   THEN "function declared but modifier accesses"
                                   ELSE "function declared but this expression accesses"])]

\* Access::increase_to
increase_to(required, other) == IF required < other THEN other ELSE required

\* The level read_expression and write_expression ask for at one access.
Desired(access, func) ==
    CASE access = "read" -> Access.Read
      [] access = "write" -> Access.Write
      [] access = "msg.value" -> IF func.is_public THEN Access.Value ELSE Access.Read

\* recurse_statements: StateCheck::read, write or value at every access.
RECURSIVE recurse_statements(_, _, _)
recurse_statements(body, st, func) ==
    IF body = <<>> THEN st
    ELSE LET desired == Desired(Head(body), func)
             checked == check_level(st, func, desired) IN
         recurse_statements(Tail(body),
            [checked EXCEPT !.required_access = increase_to(@, desired)], func)

\* The loop of check_mutability over the invoked modifiers.
RECURSIVE recurse_modifiers(_, _, _, _)
recurse_modifiers(modifiers, st, func, fns) ==
    IF modifiers = <<>> THEN st
    ELSE LET inside == recurse_statements(fns[Head(modifiers) + 1].body,
                                          [st EXCEPT !.modifier = TRUE], func) IN
         recurse_modifiers(Tail(modifiers), [inside EXCEPT !.modifier = FALSE], func, fns)

MutWarning(message) == [level |-> "Warning", loc |-> "prototype", message |-> message]

\* The downgrade suggestions of check_mutability with one for payable too.
suggestions_payable_too(func, required) ==
    IF func.ty = "Function" /\ ~func.is_accessor /\ required < declared_access(func)
    THEN <<MutWarning("function can be declared with less")>>
    ELSE <<>>

\* The downgrade suggestions at the end of check_mutability.
suggestions(func, required) ==
    IF func.ty = "Function" /\ ~func.is_accessor
    THEN (IF required = Access.None
          THEN CASE func.mutability \in {"payable", "pure"} -> <<>>
                 [] func.mutability = "nonpayable" ->
                       <<MutWarning("function can be declared 'pure'")>>
                 [] OTHER -> <<MutWarning("function declared 'view' can be declared 'pure'")>>
          ELSE <<>>)
         \o (IF required = Access.Read /\ declared_access(func) = Access.Write
             THEN <<MutWarning("function can be declared 'view'")>>
             ELSE <<>>)
    ELSE <<>>

\* check_mutability: the diagnostics of one function.
check_mutability(func, fns) ==
    IF func.is_virtual THEN <<>>
    ELSE LET start == [diagnostic |-> <<>>, required_access |-> Access.None,
                       modifier |-> FALSE]
             walked == recurse_statements(func.body,
                          recurse_modifiers(func.modifiers, start, func, fns), func) IN
         walked.diagnostic \o suggestions(func, walked.required_access)

\* The loop of check over Context.functions.
RECURSIVE CheckFunctions(_, _, _)
CheckFunctions(todo, fns, no) ==
    IF todo = <<>> THEN <<>>
    ELSE (IF Head(todo).no # no \/ Head(todo).ty = "Modifier" THEN <<>>
          ELSE check_mutability(Head(todo), fns))
         \o CheckFunctions(Tail(todo), fns, no)

MutInit ==
    /\ mfunctions \in {<<f, g>> : f \in CheckedFunctions, g \in ModifierFunctions}
    /\ mdiags \in {<<>>, <<[level |-> "Error", loc |-> "expression",
                           message |-> "earlier error"]>>}
    /\ mchecked = FALSE

MutIdle ==
    /\ mfunctions = <<>>
    /\ mdiags = <<>>
    /\ mchecked = FALSE

\* mutability::check on file 0
check ==
    /\ ~mchecked
    /\ mfunctions # <<>>
    /\ mchecked' = TRUE
    /\ mdiags' = IF \E n \in 1..Len(mdiags) : mdiags[n].level = "Error"
                 THEN mdiags
                 ELSE mdiags \o CheckFunctions(mfunctions, mfunctions, 0)
    /\ UNCHANGED mfunctions
    /\ UNCHANGED nonMut

MutNext == check

(***************************************************************************)
(* Contract headers (the grammar rule ContractDefinition, which is         *)
(* generated at build time; src/tests/contract.rs holds its tests).        *)
(* A text is modelled by the tokens of src/src/token.rs the lexer yields.  *)
(***************************************************************************)
\* most base specifiers in one header
MaxBases == 2

Token(kind, text) == <<kind, text>>

\* The contract kinds with the keywords that introduce them.
KindKeywords ==
    [Contract |-> <<Token("Contract", "")>>,
     Abstract |-> <<Token("Abstract", ""), Token("Contract", "")>>,
     Interface |-> <<Token("Interface", "")>>,
     Library |-> <<Token("Library", "")>>]
PtContractTys == DOMAIN KindKeywords

\* The base specifiers written: an identifier path, and no argument list
\* (<<>>) or one (<<list>>) of string literals.
BaseNames == {<<"A">>, <<"L", "B">>}
BaseArgs == {<<>>, << <<>> >>, << <<"x">> >>}
BaseSpecifiers == [name : BaseNames, args : BaseArgs]
Headers ==
    [ty : PtContractTys, name : {"Counter"}, base : SeqsUpTo(BaseSpecifiers, MaxBases)]

\* The tokens of `a, b, c`, each item given by its tokens.
RECURSIVE Separated(_, _)
Separated(items, separator) ==
    IF items = <<>> THEN <<>>
    ELSE IF Len(items) = 1 THEN Head(items)
    ELSE Head(items) \o <<separator>> \o Separated(Tail(items), separator)

\* The tokens of a base specifier and of a header as they are written.
BaseTokens(b) ==
    Separated([n \in 1..Len(b.name) |-> <<Token("Identifier", b.name[n])>>],
              Token("Period", ""))
       \o (IF b.args = <<>> THEN <<>>
           ELSE <<Token("OpenParenthesis", "")>>
                   \o Separated([n \in 1..Len(b.args[1]) |->
                                    <<Token("StringLiteral", b.args[1][n])>>],
                                Token("Comma", ""))
                   \o <<Token("CloseParenthesis", "")>>)
HeaderTokens(h) ==
    KindKeywords[h.ty] \o <<Token("Identifier", h.name)>>
       \o (IF h.base = <<>> THEN <<>>
           ELSE <<Token("Is", "")>>
                   \o Separated([n \in 1..Len(h.base) |-> BaseTokens(h.base[n])],
                                Token("Comma", "")))
       \o <<Token("OpenCurlyBrace", ""), Token("CloseCurlyBrace", "")>>

\* The token at a position, the end of the input after the last one.
At(ts, i) == IF i <= Len(ts) THEN ts[i] ELSE Token("EOF", "")

\* A Base that loses its argument list.
PtBase_args_dropped(name, args) == [name |-> name, args |-> <<>>]

\* ast::Base
PtBase(name, args) == [name |-> name, args |-> args]

\* IdentifierPath: <id> (. <id>)*, from position i with the identifiers so far.
RECURSIVE ParseIdentifierPath(_, _, _)
ParseIdentifierPath(ts, i, ids) ==
    IF At(ts, i)[1] # "Identifier" THEN [ok |-> FALSE, value |-> ids, next |-> i]
    ELSE IF At(ts, i + 1)[1] = "Period"
         THEN ParseIdentifierPath(ts, i + 2, Append(ids, At(ts, i)[2]))
    ELSE [ok |-> TRUE, value |-> Append(ids, At(ts, i)[2]), next |-> i + 1]

\* The arguments after `(`: <expr,>* ), an expression being a string literal.
RECURSIVE ParseArguments(_, _, _)
ParseArguments(ts, i, args) ==
    IF At(ts, i)[1] = "CloseParenthesis" /\ args = <<>>
    THEN [ok |-> TRUE, value |-> args, next |-> i + 1]
    ELSE IF At(ts, i)[1] # "StringLiteral" THEN [ok |-> FALSE, value |-> args, next |-> i]
    ELSE IF At(ts, i + 1)[1] = "Comma"
         THEN ParseArguments(ts, i + 2, Append(args, At(ts, i)[2]))
    ELSE IF At(ts, i + 1)[1] = "CloseParenthesis"
         THEN [ok |-> TRUE, value |-> Append(args, At(ts, i)[2]), next |-> i + 2]
    ELSE [ok |-> FALSE, value |-> args, next |-> i + 1]

\* Base: <identifier-path> [ ( <expr,>* ) ]
ParseBase(ts, i) ==
    LET path == ParseIdentifierPath(ts, i, <<>>) IN
    IF ~path.ok THEN [ok |-> FALSE, value |-> PtBase(<<>>, <<>>), next |-> path.next]
    ELSE IF At(ts, path.next)[1] = "OpenParenthesis"
         THEN LET args == ParseArguments(ts, path.next + 1, <<>>) IN
              [ok |-> args.ok, value |-> PtBase(path.value, <<args.value>>),
               next |-> args.next]
    ELSE [ok |-> TRUE, value |-> PtBase(path.value, <<>>), next |-> path.next]

\* The base list after `is`: <base> (, <base>)*
RECURSIVE ParseBaseList(_, _, _)
ParseBaseList(ts, i, parsed) ==
    LET b == ParseBase(ts, i) IN
    IF ~b.ok THEN [ok |-> FALSE, value |-> parsed, next |-> b.next]
    ELSE IF At(ts, b.next)[1] = "Comma"
         THEN ParseBaseList(ts, b.next + 1, Append(parsed, b.value))
    ELSE [ok |-> TRUE, value |-> Append(parsed, b.value), next |-> b.next]

\* The contract kind: contract | abstract contract | interface | library
ParseContractTy(ts) ==
    CASE At(ts, 1)[1] = "Contract" -> [ok |-> TRUE, value |-> "Contract", next |-> 2]
      [] At(ts, 1)[1] = "Abstract" /\ At(ts, 2)[1] = "Contract" ->
            [ok |-> TRUE, value |-> "Abstract", next |-> 3]
      [] At(ts, 1)[1] = "Interface" -> [ok |-> TRUE, value |-> "Interface", next |-> 2]
      [] At(ts, 1)[1] = "Library" -> [ok |-> TRUE, value |-> "Library", next |-> 2]
      [] OTHER -> [ok |-> FALSE, value |-> "Contract", next |-> 1]

ParseFailure(i) == [ok |-> FALSE, def |-> <<>>, errors |-> <<i>>]

\* ContractDefinition: <ty> <id> [is <base-list>] { }, the whole input.
ParseContractDefinition(ts) ==
    LET ty == ParseContractTy(ts)
        named == At(ts, ty.next)[1] = "Identifier"
        after == ty.next + 1
        base == IF At(ts, after)[1] = "Is" THEN ParseBaseList(ts, after + 1, <<>>)
                ELSE [ok |-> TRUE, value |-> <<>>, next |-> after] IN
    IF ~ty.ok THEN ParseFailure(ty.next)
    ELSE IF ~named THEN ParseFailure(ty.next)
    ELSE IF ~base.ok THEN ParseFailure(base.next)
    ELSE IF At(ts, base.next)[1] # "OpenCurlyBrace" THEN ParseFailure(base.next)
    ELSE IF At(ts, base.next + 1)[1] # "CloseCurlyBrace" THEN ParseFailure(base.next + 1)
    ELSE IF base.next + 1 # Len(ts) THEN ParseFailure(base.next + 2)
    ELSE [ok |-> TRUE,
          def |-> <<[ty |-> ty.value, name |-> At(ts, ty.next)[2],
                     base |-> base.value, parts |-> <<>>]>>,
          errors |-> <<>>]

\* The texts given to the parser: the headers, and headers cut short.
HeaderTexts ==
    {HeaderTokens(h) : h \in Headers}
       \cup {SubSeq(HeaderTokens(h), 1, n) : h \in Headers, n \in {1, 2, 3}}

HeaderInit ==
    /\ header_tokens \in HeaderTexts
    /\ header_result = <<>>

HeaderIdle ==
    /\ header_tokens = <<>>
    /\ header_result = <<>>

\* parse!(ContractDefinition, text)
parse_header ==
    /\ header_tokens # <<>>
    /\ header_result = <<>>
    /\ header_result' = <<ParseContractDefinition(header_tokens)>>
    /\ UNCHANGED header_tokens
    /\ UNCHANGED nonHeader

HeaderNext == parse_header

\* ---------------------------------------------------------------------
\* Pragma directives: semantic/pragma.rs

\* most components a version is written with
MaxComponents == 4

\* ast::Version holds u32 numbers.  A number n is written here as the pair
\* <<n \div 2^16, n % 2^16>>, and fits a u32 when its first half is below
\* 2^16.
HalfWord == 65536
Num(n) == <<"num", <<n \div HalfWord, n % HalfWord>>>>
U32Limit == <<"num", <<HalfWord, 0>>>>
Word == <<"word", <<0, 0>>>>

\* A component of a version as written: a decimal number or another word.
VersionComponents == {Num(0), Num(8), U32Limit, Word}

VersionTexts == UNION {[1..k -> VersionComponents] : k \in 1..MaxComponents}

\* The versions used inside operators, ranges and alternatives.
ShortVersionTexts ==
    {<<Num(0)>>, <<Num(0), Num(8), Num(0)>>, <<Num(0), Word>>,
     <<Num(0), Num(8), Num(0), Num(0)>>}

\* pt::VersionComparator
PlainComparators == {<<"Plain", v>> : v \in VersionTexts}
ShortComparators ==
    {<<"Plain", v>> : v \in ShortVersionTexts}
        \cup {<<"Operator", v>> : v \in ShortVersionTexts}
        \cup {<<"Range", f, t>> : f, t \in ShortVersionTexts}
VersionComparators ==
    PlainComparators \cup ShortComparators
        \cup {<<"Or", l, r>> : l, r \in {<<"Plain", v>> : v \in ShortVersionTexts}}

\* pt::PragmaDirective
PragmaDirective(kind, name, value, versions) ==
    [kind |-> kind, name |-> name, value |-> value, versions |-> versions]

PragmaDirectives ==
    {PragmaDirective("Version", "solidity", "", <<c>>) : c \in VersionComparators}
        \cup {PragmaDirective("Version", "solidity", "", <<c, d>>) :
                 c, d \in {<<"Plain", v>> : v \in ShortVersionTexts}
                            \cup {<<"Range", <<Num(0)>>, <<Num(0)>>>>}}
        \cup {PragmaDirective("Version", "sol", "", <<<<"Plain", <<Num(0)>>>>>>)}
        \cup {PragmaDirective(k, n[1], n[2], <<>>) :
                 k \in {"Identifier", "StringLiteral"},
                 n \in {<<"experimental", "ABIEncoderV2">>, <<"experimental", "solidity">>,
                        <<"abicoder", "v1">>, <<"abicoder", "v3">>}}

PragmaDiag(level, message) == [level |-> level, message |-> message]

\* str::parse::<u32>: <<>> for Err.
parse_u32(v) == IF v[1] = "num" /\ v[2][1] < HalfWord THEN <<v[2]>> ELSE <<>>

\* ast::Version built from the components in reverse order.
Version_reversed(res) ==
    [major |-> res[Len(res)],
     minor |-> IF Len(res) >= 2 THEN <<res[Len(res) - 1]>> ELSE <<>>,
     patch |-> IF Len(res) >= 3 THEN <<res[Len(res) - 2]>> ELSE <<>>]

\* ast::Version { major: res[0], minor: res.get(1), patch: res.get(2) }
Version(res) ==
    [major |-> res[1],
     minor |-> IF Len(res) >= 2 THEN <<res[2]>> ELSE <<>>,
     patch |-> IF Len(res) >= 3 THEN <<res[3]>> ELSE <<>>]

\* PragmaResolver::parse_version: the result (<<>> for Err) and the
\* diagnostics pushed.
parse_version(version) ==
    LET bad == {i \in 1..Len(version) : parse_u32(version[i]) = <<>>} IN
    IF bad # {}
    THEN [r |-> <<>>, diags |-> <<PragmaDiag("Error", "not a valid number")>>]
    ELSE IF Len(version) > 3
    THEN [r |-> <<>>, diags |-> <<PragmaDiag("Error", "no more than three numbers")>>]
    ELSE [r |-> <<Version([i \in 1..Len(version) |-> parse_u32(version[i])[1]])>>,
          diags |-> <<>>]

\* PragmaResolver::parse_version_comparator; `?` returns at the first Err.
RECURSIVE parse_version_comparator(_)
parse_version_comparator(c) ==
    IF c[1] \in {"Plain", "Operator"}
    THEN LET v == parse_version(c[2]) IN
         [r |-> IF v.r = <<>> THEN <<>> ELSE <<<<c[1], v.r[1]>>>>, diags |-> v.diags]
    ELSE LET a == IF c[1] = "Range" THEN parse_version(c[2])
                  ELSE parse_version_comparator(c[2]) IN
         IF a.r = <<>> THEN [r |-> <<>>, diags |-> a.diags]
         ELSE LET b == IF c[1] = "Range" THEN parse_version(c[3])
                       ELSE parse_version_comparator(c[3]) IN
              IF b.r = <<>> THEN [r |-> <<>>, diags |-> a.diags \o b.diags]
              ELSE [r |-> <<<<c[1], a.r[1], b.r[1]>>>>, diags |-> a.diags \o b.diags]

\* The loop of visit_pragma over the versions of a directive: res so far;
\* the directive is given up at the first version that fails.
RECURSIVE ParseVersions(_, _, _)
ParseVersions(versions, res, diags) ==
    IF versions = <<>> THEN [r |-> <<res>>, diags |-> diags]
    ELSE LET v == parse_version_comparator(Head(versions)) IN
         IF v.r = <<>> THEN [r |-> <<>>, diags |-> diags \o v.diags]
         ELSE ParseVersions(Tail(versions), Append(res, v.r[1]), diags \o v.diags)

\* PragmaResolver::plain
plain(name, value) ==
    IF name = "experimental" /\ value = "ABIEncoderV2"
    THEN PragmaDiag("Debug", "experimental ABIEncoderV2 is ignored")
    ELSE IF name = "experimental" /\ value = "solidity"
    THEN PragmaDiag("Error", "experimental solidity features are not supported")
    ELSE IF name = "abicoder" /\ value \in {"v1", "v2"}
    THEN PragmaDiag("Debug", "pragma 'abicoder' ignored")
    ELSE PragmaDiag("Error", "unknown pragma with value")

\* ast::Pragma
Pragma(kind, name, value, versions) ==
    [kind |-> kind, name |-> name, value |-> value, versions |-> versions]

\* PragmaResolver::visit_pragma as what it appends to Context.pragmas and
\* to Context.diagnostics.
visit_pragma_result(d) ==
    IF d.kind \in {"Identifier", "StringLiteral"}
    THEN [pragmas |-> <<Pragma(d.kind, d.name, d.value, <<>>)>>,
          diags |-> <<plain(d.name, d.value)>>]
    ELSE IF d.name # "solidity"
    THEN [pragmas |-> <<>>, diags |-> <<PragmaDiag("Error", "unknown pragma")>>]
    ELSE LET p == ParseVersions(d.versions, <<>>, <<>>) IN
         IF p.r = <<>> THEN [pragmas |-> <<>>, diags |-> p.diags]
         ELSE [pragmas |-> <<Pragma("SolidityVersion", "", "", p.r[1])>>,
               diags |-> p.diags \o
                   (IF Len(p.r[1]) > 1 /\ \E i \in 1..Len(p.r[1]) : p.r[1][i][1] = "Range"
                    THEN <<PragmaDiag("Error", "version ranges can only be combined with ||")>>
                    ELSE <<>>)]

\* The context a pragma directive is met in: no pragma and no diagnostic
\* yet, or one of each from an earlier directive.
EarlierPragma == Pragma("Identifier", "abicoder", "v2", <<>>)
EarlierDiag == PragmaDiag("Debug", "pragma 'abicoder' ignored")

PragmaInit ==
    /\ pragma_directive \in PragmaDirectives
    /\ pragmas \in {<<>>, <<EarlierPragma>>}
    /\ pragma_diags \in {<<>>, <<EarlierDiag>>}
    /\ pragma_done = FALSE

PragmaIdle ==
    /\ pragma_directive = PragmaDirective("Identifier", "abicoder", "v1", <<>>)
    /\ pragmas = <<>>
    /\ pragma_diags = <<>>
    /\ pragma_done = TRUE

\* PragmaResolver::visit_pragma
visit_pragma ==
    LET o == visit_pragma_result(pragma_directive) IN
    /\ ~pragma_done
    /\ pragmas' = pragmas \o o.pragmas
    /\ pragma_diags' = pragma_diags \o o.diags
    /\ pragma_done' = TRUE
    /\ UNCHANGED pragma_directive
    /\ UNCHANGED nonPragma

PragmaNext == visit_pragma

\* ---------------------------------------------------------------------
\* Rename imports: semantic/import.rs, visit_import_renames

\* longest list of names of one rename import
MaxRenames == 2

\* One listed name: <<from, rename_to>>, rename_to is <<>> without `as`.
RenamePairs ==
    {<<from, to>> : from \in ImportNames, to \in {<<>>} \cup {<<n>> : n \in ImportNames}}

RenameLists == UNION {[1..k -> RenamePairs] : k \in 1..MaxRenames}

\* rename_to.as_ref().unwrap_or(from)
RenameId(pair) == IF pair[2] = <<>> THEN pair[1] ELSE pair[2][1]

\* The lookup of a listed name with the function namespace tried first.
lookup_export_function_first(c, from) ==
    IF c.fs[SymbolKey(1, from)] # NoSymbol
    THEN <<TRUE, c.fs[SymbolKey(1, from)]>>
    ELSE IF c.vs[SymbolKey(1, from)] # NoSymbol
    THEN <<FALSE, c.vs[SymbolKey(1, from)]>>
    ELSE <<>>

\* The lookup of a listed name in the imported file (file 1): the variable
\* namespace, then the function namespace; <<>> when it is in neither.
lookup_export(c, from) ==
    IF c.vs[SymbolKey(1, from)] # NoSymbol
    THEN <<FALSE, c.vs[SymbolKey(1, from)]>>
    ELSE IF c.fs[SymbolKey(1, from)] # NoSymbol
    THEN <<TRUE, c.fs[SymbolKey(1, from)]>>
    ELSE <<>>

\* The diagnostic "import '..' does not export 'from'".
DoesNotExport(from) ==
    [level |-> "Error",
     name |-> IF from = "x" THEN "does not export x" ELSE "does not export y"]

\* The first loop of visit_import_renames: the (function, id, symbol)
\* triples collected, or the name that stopped it.
RECURSIVE CollectRenames(_, _, _)
CollectRenames(c, imports, symbols) ==
    IF imports = <<>> THEN [symbols |-> symbols, missing |-> <<>>]
    ELSE LET found == lookup_export(c, Head(imports)[1]) IN
         IF found = <<>> THEN [symbols |-> symbols, missing |-> <<Head(imports)[1]>>]
         ELSE CollectRenames(c, Tail(imports),
                  Append(symbols, <<found[1], RenameId(Head(imports)), found[2]>>))

\* The second loop: add_symbol for every triple, into the importing file
\* (file 0).
RECURSIVE AddRenamed(_, _)
AddRenamed(c, symbols) ==
    IF symbols = <<>> THEN c
    ELSE AddRenamed(add_symbol(c, Head(symbols)[1], SymbolKey(0, Head(symbols)[2]),
                               Head(symbols)[3]),
                    Tail(symbols))

RenameInit ==
    /\ rename_imports \in RenameLists
    /\ \E vs \in [SymbolKeys -> {<<"Struct", <<0>>>>, NoSymbol}] :
          variable_symbols = [r \in Runs |-> vs]
    /\ \E fs \in [SymbolKeys -> FunctionSymbolValues \cup {NoSymbol}] :
          function_symbols = [r \in Runs |-> fs]
    /\ import_diags = [r \in Runs |-> <<>>]
    /\ import_done = [r \in Runs |-> FALSE]

RenameIdle == rename_imports = <<>>

\* ImportResolver::visit_import_renames in run r.
visit_import_renames(r) ==
    LET c0 == [vs |-> variable_symbols[r], fs |-> function_symbols[r],
               diags |-> import_diags[r]]
        found == CollectRenames(c0, rename_imports, <<>>)
        c1 == IF found.missing # <<>>
              THEN [c0 EXCEPT !.diags = Append(@, DoesNotExport(found.missing[1]))]
              ELSE AddRenamed(c0, found.symbols) IN
    /\ ~import_done[r]
    /\ rename_imports # <<>>
    /\ variable_symbols' = [variable_symbols EXCEPT ![r] = c1.vs]
    /\ function_symbols' = [function_symbols EXCEPT ![r] = c1.fs]
    /\ import_diags' = [import_diags EXCEPT ![r] = c1.diags]
    /\ import_done' = [import_done EXCEPT ![r] = TRUE]
    /\ UNCHANGED nonImport

RenameNext == \E r \in Runs : visit_import_renames(r)

DiagIdle == DiagInit

InitDiag ==
    /\ RenameIdle
    /\ PragmaIdle
    /\ HeaderIdle
    /\ MutIdle
    /\ FuncIdle
    /\ TypeIdle
    /\ CollectIdle
    /\ DiagInit /\ BaseIdle /\ UsingIdle /\ ResolverIdle
    /\ ParseIdle /\ ImportIdle /\ AnalyzeIdle

SpecDiag == InitDiag /\ [][DiagNext]_vars

InitBases ==
    /\ RenameIdle
    /\ PragmaIdle
    /\ HeaderIdle
    /\ MutIdle
    /\ FuncIdle
    /\ TypeIdle
    /\ CollectIdle
    /\ BaseInit /\ DiagIdle /\ UsingIdle /\ ResolverIdle
    /\ ParseIdle /\ ImportIdle /\ AnalyzeIdle

SpecBases == InitBases /\ [][BaseNext]_vars

\* The base lists visit_base builds when every contract is of kind contract:
\* every acyclic relation without duplicates, in every order of declaration.
InitBaseOrder ==
    /\ BaseInit /\ ctys = [c \in Contracts |-> "contract"]
    /\ DiagIdle /\ UsingIdle /\ ResolverIdle /\ ParseIdle /\ ImportIdle
    /\ AnalyzeIdle /\ CollectIdle /\ TypeIdle /\ FuncIdle /\ MutIdle
    /\ HeaderIdle /\ PragmaIdle /\ RenameIdle

SpecBaseOrder == InitBaseOrder /\ [][BaseNext]_vars

\* The contracts a using directive can name: contract 0 encloses the
\* contract-scope directives, contract 1 is a library.
InitUsing ==
    /\ RenameIdle
    /\ PragmaIdle
    /\ HeaderIdle
    /\ MutIdle
    /\ FuncIdle
    /\ TypeIdle
    /\ CollectIdle
    /\ UsingInit /\ DiagIdle /\ ResolverIdle
    /\ ParseIdle /\ ImportIdle /\ AnalyzeIdle
    /\ \E k \in {"contract", "interface"} : ctys = UsingCtys(k)
    /\ bases = [c \in Contracts |-> <<>>]
    /\ blast = "none"
    /\ base_diags = <<>>

SpecUsing == InitUsing /\ [][UsingNext]_vars

InitResolver ==
    /\ RenameIdle
    /\ PragmaIdle
    /\ HeaderIdle
    /\ MutIdle
    /\ FuncIdle
    /\ TypeIdle
    /\ CollectIdle
    /\ ResolverInit /\ DiagIdle /\ BaseIdle /\ UsingIdle
    /\ ParseIdle /\ ImportIdle /\ AnalyzeIdle

SpecResolver == InitResolver /\ [][ResolverNext]_vars

SpecRelative == InitResolver /\ [][RelativeNext]_vars

SpecRemap == InitResolver /\ [][RemapNext]_vars

InitParse ==
    /\ RenameIdle
    /\ PragmaIdle
    /\ HeaderIdle
    /\ MutIdle
    /\ FuncIdle
    /\ TypeIdle
    /\ CollectIdle
    /\ ParseInit /\ DiagIdle /\ BaseIdle /\ UsingIdle /\ ResolverIdle
    /\ ImportIdle /\ AnalyzeIdle

SpecParse == InitParse /\ [][ParseNext]_vars

InitImport ==
    /\ RenameIdle
    /\ PragmaIdle
    /\ HeaderIdle
    /\ MutIdle
    /\ FuncIdle
    /\ TypeIdle
    /\ CollectIdle
    /\ ImportInit /\ DiagIdle /\ BaseIdle /\ UsingIdle /\ ResolverIdle
    /\ ParseIdle /\ AnalyzeIdle

SpecImport == InitImport /\ [][ImportNext]_vars

InitCollect ==
    /\ RenameIdle
    /\ PragmaIdle
    /\ HeaderIdle
    /\ MutIdle
    /\ FuncIdle
    /\ TypeIdle
    /\ CollectInit /\ DiagIdle /\ BaseIdle /\ UsingIdle /\ ResolverIdle
    /\ ParseIdle /\ ImportIdle /\ AnalyzeIdle

SpecCollect == InitCollect /\ [][CollectNext]_vars

InitType ==
    /\ RenameIdle
    /\ PragmaIdle
    /\ HeaderIdle
    /\ MutIdle
    /\ FuncIdle
    /\ TypeInit /\ DiagIdle /\ BaseIdle /\ UsingIdle /\ ResolverIdle
    /\ ParseIdle /\ ImportIdle /\ AnalyzeIdle /\ CollectIdle

SpecType == InitType /\ [][TypeNext]_vars

InitFunc ==
    /\ RenameIdle
    /\ PragmaIdle
    /\ HeaderIdle
    /\ MutIdle
    /\ FuncInit /\ DiagIdle /\ BaseIdle /\ UsingIdle /\ ResolverIdle /\ ParseIdle
    /\ ImportIdle /\ AnalyzeIdle /\ CollectIdle /\ TypeIdle

SpecFunc == InitFunc /\ [][FuncNext]_vars

InitMut ==
    /\ RenameIdle
    /\ PragmaIdle
    /\ HeaderIdle
    /\ MutInit /\ DiagIdle /\ BaseIdle /\ UsingIdle /\ ResolverIdle /\ ParseIdle
    /\ ImportIdle /\ AnalyzeIdle /\ CollectIdle /\ TypeIdle /\ FuncIdle

SpecMut == InitMut /\ [][MutNext]_vars

InitHeader ==
    /\ RenameIdle
    /\ PragmaIdle
    /\ HeaderInit /\ DiagIdle /\ BaseIdle /\ UsingIdle /\ ResolverIdle /\ ParseIdle
    /\ ImportIdle /\ AnalyzeIdle /\ CollectIdle /\ TypeIdle /\ FuncIdle /\ MutIdle

SpecHeader == InitHeader /\ [][HeaderNext]_vars

InitPragma ==
    /\ RenameIdle
    /\ PragmaInit /\ DiagIdle /\ BaseIdle /\ UsingIdle /\ ResolverIdle /\ ParseIdle
    /\ ImportIdle /\ AnalyzeIdle /\ CollectIdle /\ TypeIdle /\ FuncIdle /\ MutIdle
    /\ HeaderIdle

SpecPragma == InitPragma /\ [][PragmaNext]_vars

InitRename ==
    /\ RenameInit /\ DiagIdle /\ BaseIdle /\ UsingIdle /\ ResolverIdle /\ ParseIdle
    /\ AnalyzeIdle /\ CollectIdle /\ TypeIdle /\ FuncIdle /\ MutIdle
    /\ HeaderIdle /\ PragmaIdle

SpecRename == InitRename /\ [][RenameNext]_vars

InitAnalyze ==
    /\ RenameIdle
    /\ PragmaIdle
    /\ HeaderIdle
    /\ MutIdle
    /\ FuncIdle
    /\ TypeIdle
    /\ CollectIdle
    /\ AnalyzeInit /\ DiagIdle /\ BaseIdle /\ UsingIdle /\ ResolverIdle
    /\ ParseIdle /\ ImportIdle

\* A call that can proceed is executed.
SpecAnalyze == InitAnalyze /\ [][AnalyzeNext]_vars /\ WF_vars(AnalyzeNext)

StrictlyAscending(s) == \A i \in 1..(Len(s) - 1) : DiagLess(s[i], s[i + 1])

\* C3: any_errors() is true exactly when the collection holds a diagnostic
\* of level Error, after any sequence of push, extend, append and normalize.
C3_AnyErrorsIffErrorPresent ==
    /\ any_errors <=> AnyError(contents)
    /\ other_has_error <=> AnyError(other_contents)

\* An error and a warning are left after normalize removed a repeated entry.
C3_Witness ==
    /\ dlast = "normalize"
    /\ any_errors
    /\ Len(contents) = 2
    /\ AnyError(contents)
    /\ \E i \in 1..2 : contents[i].level # "Error"

Reverse(s) == [i \in 1..Len(s) |-> s[Len(s) + 1 - i]]

\* C4: normalize leaves the contents strictly ascending in the derived order,
\* holding exactly the distinct diagnostics present before; a collection with
\* the same diagnostics in another order or with other multiplicities
\* normalises to the same sequence, and normalising is idempotent.
C4_NormalizeCanonical ==
    /\ [][dlast' = "normalize" =>
            /\ StrictlyAscending(contents')
            /\ Range(contents') = Range(contents)
            /\ normalized(contents') = contents']_vars
    /\ [](/\ normalized(Reverse(contents)) = normalized(contents)
          /\ normalized(contents \o contents) = normalized(contents)
          /\ normalized(contents \o other_contents \o contents) =
                normalized(other_contents \o contents))

\* Two distinct diagnostics are left, in order, after normalize.
C4_Witness ==
    /\ dlast = "normalize"
    /\ Len(contents) = 2
    /\ DiagLess(contents[1], contents[2])

\* C1: the stored base relation is acyclic: is_base never holds in both
\* directions between two distinct contracts.
C1_BasesAcyclic ==
    \A a, b \in Contracts : a # b => ~(is_base(a, b) /\ is_base(b, a))

\* A base that would close a cycle through an intermediate contract was
\* rejected.
C1_Witness ==
    /\ blast = "cyclic"
    /\ \E a, b, c \in Contracts :
          /\ a # b /\ b # c /\ a # c
          /\ is_base(a, b) /\ is_base(b, c)
          /\ ~is_base(c, a)

\* The UsingFunctions recorded for (ty, oper) across the entries of Context.using.
OperBindings(ty, oper) ==
    {<<i, j>> \in (1..Len(using)) \X (1..MaxFuncs + 1) :
        /\ using[i].ty = <<ty>>
        /\ using[i].list[1] = "Functions"
        /\ j <= Len(using[i].list[2])
        /\ using[i].list[2][j].oper = <<oper>>}

\* C2: for every (user-defined type, operator) at most one UsingFunction with
\* that operator is recorded across the entries of Context.using for the type.
C2_OperatorBindingUnique ==
    \A oper \in {"Subtract", "Negate"} : Cardinality(OperBindings(TypeT, oper)) <= 1

\* C6: a file on disk has one stable file number: no two entries of the
\* resolver's file list have the same full_path, and an entry of the
\* path-to-number map never changes.
C6_OneEntryPerFullPath ==
    /\ [](\A i, j \in 1..Len(files) :
            files[i].full_path = files[j].full_path => i = j)
    /\ [][\A k \in DOMAIN cached_paths :
            k \in DOMAIN cached_paths' /\ cached_paths'[k] = cached_paths[k]]_vars

\* The places a non-relative request is looked for: one per unnamed entry of
\* the import paths, or the remapped path itself when there is none; each
\* with the number of its entry.
CandidatePlaces(filename) ==
    LET path == Remap(import_paths, 1, filename, filename)
        unnamed == SelectSeq([i \in 1..Len(import_paths) |->
                                 [no |-> <<i - 1>>, e |-> import_paths[i]]],
                             LAMBDA x : x.e.map = <<>>) IN
    IF unnamed = <<>> THEN <<[import_no |-> <<>>, at |-> path]>>
    ELSE [i \in 1..Len(unnamed) |->
             [import_no |-> unnamed[i].no, at |-> Join(unnamed[i].e.path, path)]]

\* The candidates: the places where the path exists, as canonical paths.
Candidates(filename) ==
    LET there == SelectSeq(CandidatePlaces(filename),
                           LAMBDA c : Canonicalize(c.at) # <<>>) IN
    [i \in 1..Len(there) |->
        [import_no |-> there[i].import_no,
         full_path |-> Canonicalize(there[i].at)[1]]]

\* The latest operation was the resolve of a non-relative request with a
\* known parent.
NonRelativeWithParent(l) ==
    /\ l.op = "resolve"
    /\ l.parent # <<>>
    /\ l.filename[1] \notin {".", ".."}

\* One candidate: Ok with it; none: file not found; several: all are listed.
Trichotomy(l, cands) ==
    /\ l.r[1] = "Ok" <=> Len(cands) = 1
    /\ l.r[1] = "Ok" =>
          /\ l.r[2].full_path = cands[1].full_path
          /\ l.r[2].import_no = cands[1].import_no
    /\ l.r = NotFound(l.filename) <=> Len(cands) = 0
    /\ (l.r[1] = "Err" /\ l.r[2] = "found multiple files matching")
          <=> Len(cands) > 1
    /\ (l.r[1] = "Err" /\ l.r[2] = "found multiple files matching") =>
          l.r[3] = [i \in 1..Len(cands) |-> cands[i].full_path]

\* C7 as stated: a non-relative request with a known parent returns Ok with
\* the candidate iff one candidate exists, file not found iff none does, and
\* the list of all candidates' full paths iff several do.
C7_ResolveTrichotomy ==
    [][NonRelativeWithParent(rlast') =>
          Trichotomy(rlast', Candidates(rlast'.filename))]_vars

\* C7 amended: the trichotomy holds when every candidate met can be read; when
\* one cannot, resolve returns the read error of the first such candidate,
\* whatever the number of candidates.
C7_ResolveTrichotomyOrReadError ==
    [][NonRelativeWithParent(rlast') =>
          LET cands == Candidates(rlast'.filename)
              bad == SelectSeq(cands, LAMBDA c : ~Readable(c.full_path)) IN
          IF bad = <<>> THEN Trichotomy(rlast', cands)
          ELSE rlast'.r = <<"Err", "cannot read file", bad[1].full_path>>]_vars

\* C7's case: an ambiguous request made from a known parent.
C7_Witness ==
    /\ NonRelativeWithParent(rlast)
    /\ rlast.r[1] = "Err"
    /\ rlast.r[2] = "found multiple files matching"
    /\ Len(rlast.r[3]) = 2

C5_RunsAgree ==
    (\A r \in Runs : import_done[r]) =>
       /\ import_diags[1] = import_diags[2]
       /\ variable_symbols[1] = variable_symbols[2]
       /\ function_symbols[1] = function_symbols[2]

\* The work the analysis still has in front of it: every file not analysed
\* yet may be entered, visit its directives, run its last passes and return;
\* every activation has the rest of that to do.
FileWork(f) == IF is_loaded(f) THEN 0 ELSE 2 * Len(src_imports[f]) + 3

FrameWork(f) ==
    IF f.pc \in {"ok", "err"} THEN 1
    ELSE 2 * (Len(src_imports[f.path]) + 1 - f.i) + 2
           + (IF f.pc = "calling" THEN 0 ELSE 1)

RECURSIVE FilesWork(_)
FilesWork(S) ==
    IF S = {} THEN 0
    ELSE LET f == CHOOSE x \in S : TRUE IN FileWork(f) + FilesWork(S \ {f})

RECURSIVE FramesWork(_)
FramesWork(st) ==
    IF st = <<>> THEN 0 ELSE FrameWork(Head(st)) + FramesWork(Tail(st))

Work ==
    FilesWork(SourceFiles) + FramesWork(stack)
       + (IF ctx_files = <<>> /\ ~finished THEN 1 ELSE 0)

\* C8: the analysis of the main file terminates (every step uses up work, and
\* semantic::analyze returns), analyze is entered at most once per full path,
\* no path is twice in Context.files, and Context.files only grows at its end.
C8_AnalyzeOncePerPath ==
    /\ [](\A f \in SourceFiles : calls[f] <= 1)
    /\ [](\A i, j \in 1..Len(ctx_files) : ctx_files[i] = ctx_files[j] => i = j)
    /\ [][IsPrefix(ctx_files, ctx_files') /\ Work' < Work]_vars
    /\ <>finished

\* C8's case: a file that imports itself and is imported twice by the main
\* file, which it imports back, has been analysed.
C8_Witness ==
    /\ finished
    /\ ctx_files = <<"A", "B">>
    /\ Len(src_imports["A"]) = 2
    /\ \A i \in 1..2 : src_imports["A"][i] = [kind |-> "plain", to |-> <<"B">>]
    /\ \E i \in 1..Len(src_imports["B"]) : src_imports["B"][i].to = <<"B">>
    /\ \E i \in 1..Len(src_imports["B"]) : src_imports["B"][i].to = <<"A">>

\* Every directive of file number no was visited and its later passes ran.
FullyProcessed(no) ==
    /\ Cardinality({k \in 1..Len(log) : log[k] = [no |-> no, pass |-> "import"]})
          = Len(src_imports[ctx_files[no + 1]])
    /\ \E k \in 1..Len(log) : log[k] = [no |-> no, pass |-> "contract"]
    /\ \E k \in 1..Len(log) : log[k] = [no |-> no, pass |-> "using"]

\* C9: only a parser failure abandons a file: once the analysis is over,
\* every file that parsed has had all its import directives visited and its
\* contract and using passes run, whatever its import directives did.
C9_OnlyParserFailureAbandons ==
    finished =>
       \A no \in 0..(Len(ctx_files) - 1) :
          src_parses[ctx_files[no + 1]] => FullyProcessed(no)

RECURSIVE Flatten(_)
Flatten(ss) == IF ss = <<>> THEN <<>> ELSE Head(ss) \o Flatten(Tail(ss))

\* The <<annotation, item>> pairs of a sequence of collected parts.
PartAttachments(ps) ==
    Flatten([k \in 1..Len(ps) |->
                [n \in 1..Len(ps[k].annotations) |-> <<ps[k].annotations[n], ps[k].at>>]])

\* Every attachment of the collected tree, once per occurrence.
Attachments(t) ==
    PartAttachments(t.parts) \o PartAttachments(t.contracts)
       \o Flatten([k \in 1..Len(t.contracts) |-> PartAttachments(t.contracts[k].parts)])

\* The kinds of the parts of the scope of position a.
ScopeKinds(a) ==
    IF Len(a) = 1 THEN [k \in 1..Len(source_unit) |-> source_unit[k].kind]
    ELSE source_unit[a[1]].parts

\* The first part after a in its scope that is not an annotation, if any.
FollowingItem(a) ==
    LET ks == ScopeKinds(a)
        later == {k \in (a[Len(a)] + 1)..Len(ks) : ks[k] # "annotation"} IN
    IF later = {} THEN <<>>
    ELSE <<[a EXCEPT ![Len(a)] = CHOOSE k \in later : \A m \in later : k <= m]>>

\* The positions of the annotations of the input.
AnnotationLocs ==
    {<<i>> : i \in {k \in 1..Len(source_unit) : source_unit[k].kind = "annotation"}}
       \cup UNION {{<<i, j>> : j \in {n \in 1..Len(source_unit[i].parts) :
                                       source_unit[i].parts[n] = "annotation"}} :
                   i \in {k \in 1..Len(source_unit) : source_unit[k].kind = "contract"}}

\* C11: once collect has returned, every annotation of the input is either
\* attached exactly once, to the first item that follows it in its scope, and
\* not reported; or, with no such item, reported by exactly one error at its
\* location and attached nowhere.
C11_EachAnnotationOnce ==
    cstage = "collected" =>
       \A a \in AnnotationLocs :
          LET att == Attachments(tree[1])
              attached == {k \in 1..Len(att) : att[k][1] = a}
              reported == {k \in 1..Len(collector.diags) :
                              /\ collector.diags[k].loc = a
                              /\ collector.diags[k].level = "Error"} IN
          IF FollowingItem(a) = <<>>
          THEN Cardinality(reported) = 1 /\ attached = {}
          ELSE /\ Cardinality(attached) = 1
               /\ \A k \in attached : att[k][2] = FollowingItem(a)[1]
               /\ reported = {}

\* C11's case: an annotation attached to a contract, one left over in the
\* contract's body and one left over at the end of the file.
C11_Witness ==
    /\ cstage = "collected"
    /\ Len(source_unit) = 3
    /\ source_unit[1].kind = "annotation"
    /\ source_unit[2] = [kind |-> "contract", parts |-> <<"item", "annotation">>]
    /\ source_unit[3].kind = "annotation"
    /\ Len(collector.diags) = 2

\* C12: no bases list holds two entries with the same contract_no, and none
\* holds its own contract.
C12_NoDuplicateNoSelfBase ==
    \A c \in Contracts :
       /\ \A i, j \in 1..Len(bases[c]) :
             bases[c][i].contract_no = bases[c][j].contract_no => i = j
       /\ \A i \in 1..Len(bases[c]) : bases[c][i].contract_no # c

\* C12's case: a contract with two bases has just had a base turned down as
\* a duplicate.
C12_Witness ==
    /\ blast = "duplicate"
    /\ \E c \in Contracts : Len(bases[c]) = 2

\* The tests of visit_base on a resolved base, in the order of their priority.
BaseTests(c, no) ==
    <<[outcome |-> "library has base", holds |-> ctys[c] = "library"],
      [outcome |-> "itself", holds |-> no = c],
      [outcome |-> "duplicate",
       holds |-> no \in {bases[c][i].contract_no : i \in 1..Len(bases[c])}],
      [outcome |-> "cyclic", holds |-> is_base(c, no)],
      [outcome |-> "interface base",
       holds |-> ctys[c] = "interface" /\ ctys[no] # "interface"],
      [outcome |-> "library as base", holds |-> ctys[no] = "library"],
      [outcome |-> "accepted", holds |-> TRUE]>>

\* The outcome of the first test that holds.
FirstBaseOutcome(c, no) ==
    LET ts == BaseTests(c, no)
        first == CHOOSE k \in 1..Len(ts) :
                    ts[k].holds /\ \A m \in 1..(k - 1) : ~ts[m].holds IN
    ts[first].outcome

\* C20: for a base that resolves to a contract, visit_base takes the outcome
\* of the first test that holds; a rejection pushes exactly one error and
\* changes no bases list; acceptance appends one Base without constructor to
\* the current contract and pushes no error.
C20_BaseOutcomePriority ==
    [][\A c \in Contracts, no \in Contracts :
          visit_base(c, <<no>>) =>
             /\ blast' = FirstBaseOutcome(c, no)
             /\ IF blast' = "accepted"
                THEN /\ bases' = [bases EXCEPT ![c] = Append(@, Base(no, <<>>))]
                     /\ base_diags' = <<>>
                ELSE /\ bases' = bases
                     /\ Len(base_diags') = 1
                     /\ base_diags'[1].level = "Error"]_vars

\* C20's case: the only interface was refused a base, every other contract
\* being a library: both the interface test and the library test held.
C20_Witness ==
    /\ blast = "interface base"
    /\ \E c \in Contracts :
          /\ ctys[c] = "interface"
          /\ \A d \in Contracts \ {c} : ctys[d] = "library"

\* The length of the Context vector behind a symbol variant.
BackingLen(variant) ==
    CASE variant = "Enum" -> Len(enums)
      [] variant = "Struct" -> Len(structs)
      [] variant = "Event" -> Len(events)
      [] variant = "Error" -> Len(error_decls)

\* C13: every index of every symbol the type resolver registered is in range
\* for its Context vector, and the indices of an event list are distinct.
C13_SymbolIndicesInRange ==
    \A k \in SymbolKeys :
       type_symbols[k] # NoSymbol =>
          LET idx == type_symbols[k][2] IN
          /\ \A n \in 1..Len(idx) : idx[n] < BackingLen(type_symbols[k][1])
          /\ \A n, m \in 1..Len(idx) : idx[n] = idx[m] => n = m

\* C13's case: an event declared twice, and then a declaration whose name
\* add_symbol turned down.
C13_Witness ==
    /\ \E k \in SymbolKeys :
          type_symbols[k] # NoSymbol /\ type_symbols[k][1] = "Event"
             /\ Len(type_symbols[k][2]) = 2
    /\ tlast.op \in {"visit_enum", "visit_struct", "visit_error"}
    /\ \E n \in 1..Len(tlast.errs) : tlast.errs[n] = "already defined"

\* The latest call was visit_enum and pushed a size error.
EnumSizeError ==
    \E n \in 1..Len(tlast.errs) :
       tlast.errs[n] \in {"has no fields", "more than the 256 limit"}

\* C17 as stated: enum_decl reports a size error exactly for an enum without
\* values and for an enum with 256 or more values.
C17_EnumSizeCheck ==
    tlast.op = "visit_enum" =>
       (EnumSizeError <=> (tlast.nvalues = 0 \/ tlast.nvalues >= 256))

\* C17 amended: enum_decl reports a size error exactly for an enum without
\* values and for an enum with more than 256 values.
C17_EnumSizeCheckAbove256 ==
    tlast.op = "visit_enum" =>
       (EnumSizeError <=> (tlast.nvalues = 0 \/ tlast.nvalues > 256))

\* C17's case: an enum of 256 values went through the size check.
C17_Witness ==
    /\ tlast.op = "visit_enum"
    /\ tlast.nvalues = 256
    /\ ~EnumSizeError

\* A function definition that has a name, a body, a type for every parameter
\* and no attribute.
WellFormed(func) ==
    /\ func.name # <<>>
    /\ func.body
    /\ func.attributes = <<>>
    /\ \A n \in 1..Len(func.params) : func.params[n] # "missing"

\* The signature of a function definition as it is written.
DeclaredSignature(func) == Signature(func.name[1], func.params)

\* The function definition has the signature of a registered function.
AlreadyRegistered(func) ==
    \E n \in 1..Len(fresolver.resolve_bodies) :
       DeclaredSignature(fresolver.resolve_bodies[n][2]) = DeclaredSignature(func)

\* C14: no two registered functions have the same signature, and a free
\* function whose signature is that of a registered function is rejected with
\* an error carrying a note, Context.functions and the symbol lists unchanged.
C14_SignaturesUnique ==
    [][/\ \A n, m \in 1..Len(ctx_functions') :
             ctx_functions'[n].signature = ctx_functions'[m].signature => n = m
       /\ \A func \in FunctionDefinitions :
             (visit_function(func) /\ WellFormed(func) /\ AlreadyRegistered(func)) =>
                /\ ctx_functions' = ctx_functions
                /\ func_symbols' = func_symbols
                /\ \E n \in 1..Len(flast') :
                      flast'[n].level = "Error" /\ flast'[n].notes > 0]_vars

\* The access level the body and the invoked modifiers of the function ask for.
RequiredAccess ==
    LET func == mfunctions[1]
        body == func.body
                   \o (IF func.modifiers = <<>> THEN <<>> ELSE mfunctions[2].body)
        levels == {Desired(body[n], func) : n \in 1..Len(body)} IN
    IF levels = {} THEN Access.None ELSE CHOOSE l \in levels : \A k \in levels : k <= l

\* check has gone over the functions of file 0, of which the function is one.
FunctionChecked ==
    /\ mchecked
    /\ mfunctions[1].no = 0
    /\ \A n \in 1..Len(mdiags) : mdiags[n].message # "earlier error"

MutErrors == {n \in 1..Len(mdiags) : mdiags[n].level = "Error"}
MutWarnings ==
    {n \in 1..Len(mdiags) : mdiags[n].level = "Warning" /\ mdiags[n].loc = "prototype"}

\* C15 as stated: a checked function gets an error exactly when the level it
\* requires is greater than the level its mutability declares.
C15_ErrorIffRequiredExceedsDeclared ==
    FunctionChecked =>
       (MutErrors # {} <=> RequiredAccess > declared_access(mfunctions[1]))

\* C15 amended: a checked function that is not virtual gets an error exactly
\* when the level it requires is greater than the level its mutability declares.
C15_ErrorIffRequiredExceedsDeclaredNonVirtual ==
    (FunctionChecked /\ ~mfunctions[1].is_virtual) =>
       (MutErrors # {} <=> RequiredAccess > declared_access(mfunctions[1]))

\* C15's case: a view function that invokes a writing modifier was checked.
C15_Witness ==
    /\ FunctionChecked
    /\ ~mfunctions[1].is_virtual
    /\ mfunctions[1].mutability = "view"
    /\ mfunctions[1].modifiers # <<>>
    /\ RequiredAccess = Access.Write
    /\ MutErrors # {}

\* C16 as stated: a checked function that is neither an accessor nor a
\* constructor gets a warning at its prototype whenever it requires less than
\* it declares, and none when it requires what it declares.
C16_DowngradeSuggested ==
    (FunctionChecked /\ ~mfunctions[1].is_accessor /\ mfunctions[1].ty # "Constructor") =>
       /\ RequiredAccess < declared_access(mfunctions[1]) => MutWarnings # {}
       /\ RequiredAccess = declared_access(mfunctions[1]) => MutWarnings = {}

\* C16 amended: a checked function of type function that is neither an
\* accessor nor virtual gets a warning at its prototype whenever it is declared
\* view or default and requires less than it declares, and none when it is
\* declared payable or requires what it declares.
C16_DowngradeSuggestedBelowPayable ==
    (FunctionChecked /\ ~mfunctions[1].is_accessor /\ mfunctions[1].ty = "Function"
        /\ ~mfunctions[1].is_virtual) =>
       /\ (RequiredAccess < declared_access(mfunctions[1])
             /\ mfunctions[1].mutability \in {"view", "nonpayable"}) => MutWarnings # {}
       /\ (RequiredAccess = declared_access(mfunctions[1])
             \/ mfunctions[1].mutability = "payable") => MutWarnings = {}

\* C16's case: a default function that only reads state was checked.
C16_Witness ==
    /\ FunctionChecked
    /\ ~mfunctions[1].is_accessor /\ ~mfunctions[1].is_virtual
    /\ mfunctions[1].ty = "Function"
    /\ mfunctions[1].mutability = "nonpayable"
    /\ RequiredAccess = Access.Read
    /\ MutWarnings # {}

\* C18: for a collection that is not empty, first_error returns the message
\* of the earliest diagnostic of level Error, never that of another level.
C18_FirstErrorIsAnError ==
    contents # <<>> =>
       \E n \in 1..Len(contents) :
          /\ contents[n].level = "Error"
          /\ \A k \in 1..(n - 1) : contents[k].level # "Error"
          /\ first_error(contents) = contents[n].message

RECURSIVE KeepFirst(_)
KeepFirst(s) ==
    IF s = <<>> THEN <<>>
    ELSE LET front == KeepFirst(SubSeq(s, 1, Len(s) - 1)) IN
         IF s[Len(s)] \in Range(front) THEN front
         ELSE Append(front, s[Len(s)])

\* The linearizations of the direct bases of c from the last declared to the
\* first, concatenated from the k-th direct base downwards.
RECURSIVE BasesRightToLeft(_, _)
BasesRightToLeft(c, k) ==
    IF k = 0 THEN <<>>
    ELSE contract_bases(bases[c][k].contract_no) \o BasesRightToLeft(c, k - 1)

\* C21: for every contract c of an (acyclic) base relation, contract_bases(c)
\* has no duplicates, its elements are exactly the x with is_base(x, c), its
\* last element is c, every contract in it comes after all of its own bases,
\* and the direct bases are visited from the rightmost declared to the
\* leftmost: the list is the first occurrences of the linearizations of the
\* direct bases taken right to left, followed by c.
C21_ContractBasesLinearization ==
    \A c \in Contracts :
        LET order == contract_bases(c) IN
        /\ Cardinality(Range(order)) = Len(order)
        /\ Range(order) = {x \in Contracts : is_base(x, c)}
        /\ order[Len(order)] = c
        /\ \A p, q \in 1..Len(order) :
               (p # q /\ is_base(order[p], order[q])) => p < q
        /\ order = KeepFirst(BasesRightToLeft(c, Len(bases[c])) \o <<c>>)

\* A contract with two direct bases, neither a base of the other: the base
\* declared last comes first in the list.
C21_Witness ==
    \E c \in Contracts :
        /\ Len(bases[c]) = 2
        /\ ~is_base(bases[c][1].contract_no, bases[c][2].contract_no)
        /\ ~is_base(bases[c][2].contract_no, bases[c][1].contract_no)
        /\ contract_bases(c) =
               <<bases[c][2].contract_no, bases[c][1].contract_no, c>>

\* ---- C22 ----
\* The recorded using directives that hold a user-defined operator binding.
HasOperBinding(u) ==
    /\ u.list[1] = "Functions"
    /\ \E i \in 1..Len(u.list[2]) : u.list[2][i].oper # <<>>

\* C22: every recorded operator binding belongs to a directive at file scope
\* that targets a user-defined type and is recorded as global (file_no =
\* None); no directive in a contract leaves an operator binding recorded.
C22_OperatorBindingsAreGlobal ==
    /\ \A i \in 1..Len(using) :
           HasOperBinding(using[i]) =>
               /\ using[i].ty # <<>>
               /\ using[i].ty[1][1] = "UserType"
               /\ using[i].file_no = <<>>
    /\ \A i \in 1..Len(contract_using) : ~HasOperBinding(contract_using[i])

\* ---- C23 ----
\* The last call was resolve with a request that starts with ./ or ../
RelativeRequest(l) == l.op = "resolve" /\ l.filename[1] \in {".", ".."}

\* The path a relative request names: the parent's directory joined with the
\* request, canonical; <<>> when nothing of that name exists or there is no
\* parent.
RelativeTarget(l) ==
    IF l.parent = <<>> THEN <<>>
    ELSE Canonicalize(Join(ParentDir(l.parent[1].full_path), l.filename))

\* C23 as stated: a relative request returns the file of that name in the
\* parent's directory when something of that name is there, and file not
\* found otherwise (no parent, or nothing of that name), whatever the base
\* paths and mappings are.
C23_RelativeOnlyAgainstParent ==
    RelativeRequest(rlast) =>
        IF RelativeTarget(rlast) # <<>>
        THEN /\ rlast.r[1] = "Ok"
             /\ rlast.r[2].full_path = RelativeTarget(rlast)[1]
        ELSE rlast.r = NotFound(rlast.filename)

\* C23 amended: as stated when the name in the parent's directory is a file
\* that can be read; when it exists and cannot be read, the read error is
\* returned.
C23_RelativeOnlyAgainstParentOrReadError ==
    RelativeRequest(rlast) =>
        IF RelativeTarget(rlast) = <<>> THEN rlast.r = NotFound(rlast.filename)
        ELSE IF Readable(RelativeTarget(rlast)[1])
        THEN /\ rlast.r[1] = "Ok"
             /\ rlast.r[2].full_path = RelativeTarget(rlast)[1]
        ELSE rlast.r = <<"Err", "cannot read file", RelativeTarget(rlast)[1]>>

\* C23's cases: a relative request answered from the parent's directory while
\* a mapping named "." and a base path are configured, and one refused without
\* a parent although a base path holds a file of that name.
C23_Witness ==
    /\ RelativeRequest(rlast)
    /\ \E i \in 1..Len(import_paths) : import_paths[i].map = <<<<".">>>>
    /\ \E i \in 1..Len(import_paths) :
          /\ import_paths[i].map = <<>>
          /\ Join(import_paths[i].path, rlast.filename) \in
                {<<"/", "w", ".", "a.sol">>, <<"/", "w", "lib", ".", "a.sol">>}
    /\ \/ rlast.parent = <<>> /\ rlast.r = NotFound(rlast.filename)
       \/ rlast.parent # <<>> /\ rlast.r[1] = "Ok"

\* ---- C24 ----
\* The place of a pass in the pipeline of analyze.
PassRank(pass) ==
    CASE pass = "parse" -> 1 [] pass = "collect" -> 2 [] pass = "types" -> 3
      [] pass = "pragma" -> 4 [] pass = "import" -> 5 [] pass = "contract" -> 6
      [] pass = "using" -> 7

\* The positions of the log at which file no runs pass.
PassAt(no, pass) == {k \in 1..Len(log) : log[k] = [no |-> no, pass |-> pass]}

\* C24: the passes of one file run in the order parse, annotation
\* collection, types, pragmas, imports, contracts, global using, each at
\* most once except the import pass, which logs one entry per directive, and
\* the file is in Context.files under its number before it is parsed; the
\* whole pipeline of an imported file lies after the type and pragma passes
\* of its importer, directly after the import directive that loads it, and
\* before the importer's contract and using passes.
C24_PassOrder ==
    /\ \A k \in 1..Len(log) : log[k].no < Len(ctx_files)
    /\ \A j, k \in 1..Len(log) :
          (j < k /\ log[j].no = log[k].no) =>
              \/ PassRank(log[j].pass) < PassRank(log[k].pass)
              \/ log[j].pass = "import" /\ log[k].pass = "import"
    /\ \A k \in 1..Len(log) :
          (log[k].pass # "parse") => PassAt(log[k].no, "parse") # {}
    /\ \A k \in 1..Len(log) :
          (log[k].pass = "parse" /\ log[k].no # 0) =>
              /\ k > 1 /\ log[k - 1].pass = "import"
              /\ LET by == log[k - 1].no IN
                 /\ by < log[k].no
                 /\ \A j \in 1..Len(log) :
                       log[j].no = log[k].no =>
                          /\ \A t \in PassAt(by, "types") \cup PassAt(by, "pragma") : t < j
                          /\ PassAt(by, "types") # {} /\ PassAt(by, "pragma") # {}
                          /\ \A c \in PassAt(by, "contract") \cup PassAt(by, "using") : j < c

\* Both files went through the whole pipeline, the second one as an import of
\* the first.
C24_Witness ==
    /\ finished
    /\ PassAt(0, "using") # {} /\ PassAt(1, "using") # {}
    /\ \E k \in PassAt(1, "using") : \A c \in PassAt(0, "contract") : k < c

\* ---- C25 ----
\* C25: a file that fails to parse keeps its entry in Context.files, its
\* parser diagnostic is in Context.diagnostics (so any_errors holds), its
\* activation of analyze is about to return an error while it is on the
\* stack, and no pass after the parse ever runs for it.
C25_ParseFailureStopsPipeline ==
    \A no \in 0..(Len(ctx_files) - 1) :
        ~src_parses[ctx_files[no + 1]] =>
            /\ \E j \in 1..Len(ctx_diags) : ctx_diags[j] = ErrorDiag(no, "parser error")
            /\ \E j \in 1..Len(ctx_diags) : ctx_diags[j].level = "Error"
            /\ \A k \in 1..Len(log) : log[k].no = no => log[k].pass = "parse"
            /\ \A i \in 1..Len(stack) : stack[i].no = no => stack[i].pc = "err"

\* The main file parses and imports a file that does not: the import has
\* returned and the analysis is over.
C25_Witness ==
    /\ finished
    /\ Len(ctx_files) = 2
    /\ src_parses[ctx_files[1]] /\ ~src_parses[ctx_files[2]]
    /\ log[Len(log)] = [no |-> 1, pass |-> "parse"]

\* ---- C26 ----
\* visit_pragma has handled a `pragma solidity` directive.
SolidityPragmaDone ==
    pragma_done /\ pragma_directive.kind = "Version"
                /\ pragma_directive.name = "solidity"

\* The version texts of a comparator.
ComparatorTexts(c) ==
    IF c[1] \in {"Plain", "Operator"} THEN {c[2]}
    ELSE IF c[1] = "Range" THEN {c[2], c[3]}
    ELSE {c[2][2], c[3][2]}

DirectiveTexts ==
    UNION {ComparatorTexts(pragma_directive.versions[i]) :
              i \in 1..Len(pragma_directive.versions)}

\* A version text read as major[.minor[.patch]].
MajorMinorPatch(t) ==
    [major |-> t[1][2],
     minor |-> IF Len(t) >= 2 THEN <<t[2][2]>> ELSE <<>>,
     patch |-> IF Len(t) >= 3 THEN <<t[3][2]>> ELSE <<>>]

AcceptedComparator(c) ==
    IF c[1] \in {"Plain", "Operator"} THEN <<c[1], MajorMinorPatch(c[2])>>
    ELSE IF c[1] = "Range"
    THEN <<"Range", MajorMinorPatch(c[2]), MajorMinorPatch(c[3])>>
    ELSE <<"Or", <<c[2][1], MajorMinorPatch(c[2][2])>>,
                 <<c[3][1], MajorMinorPatch(c[3][2])>>>>

\* The directive was accepted: a SolidityVersion pragma with its versions
\* read as major[.minor[.patch]] is the last pragma of the context.
PragmaAccepted ==
    /\ pragmas # <<>>
    /\ pragmas[Len(pragmas)] =
          Pragma("SolidityVersion", "", "",
                 [i \in 1..Len(pragma_directive.versions) |->
                     AcceptedComparator(pragma_directive.versions[i])])

\* The directive was refused: one error was recorded and no SolidityVersion
\* pragma was appended.
PragmaRefused ==
    /\ Cardinality({i \in 1..Len(pragma_diags) : pragma_diags[i].level = "Error"}) = 1
    /\ \A i \in 1..Len(pragmas) : pragmas[i].kind # "SolidityVersion"

\* C26 as stated: a `pragma solidity` directive whose versions all have one
\* to three numeric components is accepted with the components read as
\* major, minor, patch in that order; one with a version that has a
\* non-numeric component or more than three components is refused with
\* exactly one error.
C26_VersionAccepted ==
    SolidityPragmaDone =>
        IF \A t \in DirectiveTexts :
              Len(t) <= 3 /\ \A i \in 1..Len(t) : t[i][1] = "num"
        THEN PragmaAccepted
        ELSE PragmaRefused

\* C26 amended: a numeric component counts only if it fits a u32; a
\* directive with a larger one is refused like one with a non-numeric
\* component.
C26_VersionAcceptedU32 ==
    SolidityPragmaDone =>
        IF \A t \in DirectiveTexts :
              Len(t) <= 3 /\ \A i \in 1..Len(t) : t[i][1] = "num" /\ t[i][2][1] < HalfWord
        THEN PragmaAccepted
        ELSE PragmaRefused

\* `pragma solidity 0.8;` was accepted with major 0, minor 8 and no patch.
C26_Witness ==
    /\ SolidityPragmaDone
    /\ pragma_directive.versions = <<<<"Plain", <<Num(0), Num(8)>>>>>>
    /\ pragmas[Len(pragmas)].kind = "SolidityVersion"
    /\ pragmas[Len(pragmas)].versions[1][2] = [major |-> Num(0)[2], minor |-> <<Num(8)[2]>>, patch |-> <<>>]

\* ---- C27 ----
\* Run 1 handles the rename import in this step.
RenameStep == rename_imports # <<>> /\ ~import_done[1] /\ import_done'[1]

\* The listed name i is in neither namespace of the imported file.
RenameMissing(i) ==
    /\ variable_symbols[1][SymbolKey(1, rename_imports[i][1])] = NoSymbol
    /\ function_symbols[1][SymbolKey(1, rename_imports[i][1])] = NoSymbol

\* The listed name i is taken from the function namespace: only when the
\* variable namespace does not have it.
RenameFromFunctions(i) ==
    variable_symbols[1][SymbolKey(1, rename_imports[i][1])] = NoSymbol

\* C27: a rename import with a listed name that the imported file has in
\* neither namespace records the error for the first such name and adds no
\* symbol at all; otherwise every listed name is taken from the variable
\* namespace when it is there and from the function namespace only when it
\* is not, and its symbol is entered under its alias in the same namespace
\* of the importing file.
C27_RenameAllOrNothing ==
    [][RenameStep =>
        LET n == Len(rename_imports)
            id(i) == SymbolKey(0, RenameId(rename_imports[i])) IN
        IF \E i \in 1..n : RenameMissing(i)
        THEN LET first == CHOOSE i \in 1..n :
                             RenameMissing(i) /\ \A j \in 1..(i - 1) : ~RenameMissing(j) IN
             /\ import_diags'[1] =
                   Append(import_diags[1], DoesNotExport(rename_imports[first][1]))
             /\ variable_symbols'[1] = variable_symbols[1]
             /\ function_symbols'[1] = function_symbols[1]
        ELSE /\ \A i \in 1..n :
                   IF RenameFromFunctions(i)
                   THEN function_symbols'[1][id(i)] # NoSymbol
                   ELSE variable_symbols'[1][id(i)] # NoSymbol
             /\ \A i \in 1..n :
                   (/\ ~RenameFromFunctions(i)
                    /\ variable_symbols[1][id(i)] = NoSymbol
                    /\ \A j \in 1..(i - 1) : RenameFromFunctions(j) \/ id(j) # id(i))
                   => variable_symbols'[1][id(i)] =
                         variable_symbols[1][SymbolKey(1, rename_imports[i][1])]
             /\ \A i \in 1..n :
                   (/\ RenameFromFunctions(i)
                    /\ function_symbols[1][id(i)] = NoSymbol
                    /\ \A j \in 1..(i - 1) : ~RenameFromFunctions(j) \/ id(j) # id(i))
                   => function_symbols'[1][id(i)] =
                         function_symbols[1][SymbolKey(1, rename_imports[i][1])]
             /\ \A k \in SymbolKeys :
                   variable_symbols'[1][k] # variable_symbols[1][k] =>
                      \E i \in 1..n : ~RenameFromFunctions(i) /\ id(i) = k
             /\ \A k \in SymbolKeys :
                   function_symbols'[1][k] # function_symbols[1][k] =>
                      \E i \in 1..n : RenameFromFunctions(i) /\ id(i) = k]_vars

\* `import {x, y} from ..` where the imported file has x and not y: the
\* error names y and x was not added to the importing file.
C27_Witness ==
    /\ import_done[1]
    /\ rename_imports = <<<<"x", <<>>>>, <<"y", <<>>>>>>
    /\ variable_symbols[1][SymbolKey(1, "x")] # NoSymbol
    /\ variable_symbols[1][SymbolKey(0, "x")] = NoSymbol
    /\ function_symbols[1][SymbolKey(0, "x")] = NoSymbol
    /\ import_diags[1] = <<DoesNotExport("y")>>

\* ---- C28 ----
\* C28: a call of visit_base that does not append the base to the bases of
\* the current contract has added an error to Context.diagnostics.
C28_RejectedBaseHasError ==
    blast \notin {"none", "accepted"} =>
        \E i \in 1..Len(base_diags) : base_diags[i].level = "Error"

\* ---- C29 ----
\* C29: whatever was visited before, a well-formed free function whose
\* signature is not yet registered is registered, with the parameter list of
\* its own definition.
C29_FunctionsIndependent ==
    [][\A func \in FunctionDefinitions :
          (visit_function(func) /\ WellFormed(func) /\ ~AlreadyRegistered(func)) =>
              ctx_functions' =
                  Append(ctx_functions,
                         [name |-> func.name[1], params |-> func.params,
                          signature |-> DeclaredSignature(func)])]_vars

\* ---- C30 ----
\* The mapping entries whose name is a prefix of the request.
MatchingMaps(ips, filename) ==
    {i \in 1..Len(ips) : ips[i].map # <<>> /\ IsPrefix(ips[i].map[1], filename)}

\* The request with the prefix of entry i replaced by the target of entry i.
MappedBy(ips, i, filename) ==
    Join(ips[i].path, SubSeq(filename, Len(ips[i].map[1]) + 1, Len(filename)))

\* The remapped path is the request mapped by the last matching entry, and
\* the request itself when no entry matches.
LastMatchWins(ips) ==
    \A filename \in RemapRequests :
        Remap(ips, 1, filename, filename) =
            IF MatchingMaps(ips, filename) = {} THEN filename
            ELSE MappedBy(ips,
                     CHOOSE i \in MatchingMaps(ips, filename) :
                        \A j \in MatchingMaps(ips, filename) : j <= i,
                     filename)

\* C30: after every step the remapped path of every request is the one of
\* the last mapping entry that matches the request as written (the request
\* itself when none does), no two entries have the same mapping name, and a
\* step that changes the list of entries either appends one entry or
\* replaces the target of one mapping entry, leaving its name and place.
C30_LastMappingWins ==
    [][/\ LastMatchWins(import_paths')
       /\ \A i, j \in 1..Len(import_paths') :
             (import_paths'[i].map # <<>> /\ import_paths'[i].map = import_paths'[j].map)
                => i = j
       /\ import_paths' # import_paths =>
             \/ /\ Len(import_paths') = Len(import_paths) + 1
                /\ SubSeq(import_paths', 1, Len(import_paths)) = import_paths
             \/ /\ Len(import_paths') = Len(import_paths)
                /\ \E i \in 1..Len(import_paths) :
                      /\ import_paths[i].map # <<>>
                      /\ import_paths'[i].map = import_paths[i].map
                      /\ \A j \in 1..Len(import_paths) :
                            j # i => import_paths'[j] = import_paths[j]]_vars

\* Two mapping entries match the request m/lib/a.sol; the file returned is
\* the one the second entry maps it to.
C30_Witness ==
    /\ rlast.op = "resolve"
    /\ rlast.filename = <<"m", "lib", "a.sol">>
    /\ import_paths = <<[map |-> <<<<"m">>>>, path |-> <<"/", "w", "lib">>],
                        [map |-> <<<<"m", "lib">>>>, path |-> <<"/", "w">>]>>
    /\ rlast.r[1] = "Ok"
    /\ rlast.r[2].full_path = <<"/", "w", "a.sol">>

====
